---- MODULE Spec2Model ----
(***************************************************************************)
(* Model of the zeller-app customer store: the zustand store               *)
(* (useCustomerStore), the SQLite DatabaseService it drives, the remote    *)
(* GraphQL fetch used for seeding, and the App start-up gate.              *)
(*                                                                         *)
(* Every async operation is a process.  A step of a process is either      *)
(*   - the completion of the call it awaits together with the code that    *)
(*     follows it up to the next call, when that code touches only the     *)
(*     operation's own locals, or                                          *)
(*   - the completion of an awaited call (its effect on the table, its     *)
(*     result captured in a local) and, as a later step, the continuation  *)
(*     that writes the store state (set(...), filterCustomers()).          *)
(* Completions are not assumed to arrive in invocation order.              *)
(***************************************************************************)
EXTENDS Integers, Sequences, FiniteSets, TLC

\* ------------------------------------------------------------------ bounds
\* operations invoked in one behaviour, when they may overlap (Spec)
MaxOps == 2
\* calls the medium or the remote source rejects in one behaviour (Spec)
MaxFaults == 1
\* the same two, when operations run one after the other (SeqSpec)
SeqMaxOps == 3
SeqMaxFaults == 2
\* pending setTimeout(filterCustomers, 0) callbacks
MaxTimers == 2

\* the same, for the build that mirrors mutations to the remote source
RemoteMaxOps == 2
RemoteMaxFaults == 1

\* pieces an argument of normalizeRole is put together from (NormSpec)
MaxRoleTokens == 3

\* mutations invoked on a loaded list, and calls rejected, in one behaviour (MutSpec)
MutMaxOps == 3
MutMaxFaults == 1

\* DatabaseService calls made, and calls the medium rejects, in one behaviour (DbSpec)
DbMaxOps == 4
DbMaxFaults == 1

\* ----------------------------------------------------------------- strings
\* A JS string is a TLA+ string; Chars gives its characters so that trim,
\* toLowerCase, includes and comparison are computed character by character.
Chars(s) ==
  CASE s = "" -> <<>>
    [] s = " " -> <<" ">>
    [] s = "a" -> <<"a">>
    [] s = "B " -> <<"B", " ">>
    [] s = "amy" -> <<"a", "m", "y">>
    [] s = "Bob" -> <<"B", "o", "b">>
    [] s = "Ann" -> <<"A", "n", "n">>
    [] s = "Admin" -> <<"A", "d", "m", "i", "n">>
    [] s = "Manager" -> <<"M", "a", "n", "a", "g", "e", "r">>
    [] s = "ADMINISTRATOR" -> <<"A", "D", "M", "I", "N", "I", "S", "T", "R", "A", "T", "O", "R">>
    [] s = "manager" -> <<"m", "a", "n", "a", "g", "e", "r">>
    [] s = " admin " -> <<" ", "a", "d", "m", "i", "n", " ">>
    [] s = "guest" -> <<"g", "u", "e", "s", "t">>
    [] s = "admin" -> <<"a", "d", "m", "i", "n">>
    [] s = "ADMIN" -> <<"A", "D", "M", "I", "N">>
    [] s = "MANAGER" -> <<"M", "A", "N", "A", "G", "E", "R">>
    [] s = "administrator" -> <<"a", "d", "m", "i", "n", "i", "s", "t", "r", "a", "t", "o", "r">>
    [] s = "admin_user" -> <<"a", "d", "m", "i", "n", "_", "u", "s", "e", "r">>
    [] s = "system_admin" -> <<"s", "y", "s", "t", "e", "m", "_", "a", "d", "m", "i", "n">>
    [] s = "team_manager" -> <<"t", "e", "a", "m", "_", "m", "a", "n", "a", "g", "e", "r">>
    [] s = "project_manager" -> <<"p", "r", "o", "j", "e", "c", "t", "_", "m", "a", "n", "a", "g", "e", "r">>
    [] s = "manager_user" -> <<"m", "a", "n", "a", "g", "e", "r", "_", "u", "s", "e", "r">>
    [] s = "All" -> <<"A", "l", "l">>
    [] s = "Test Customer" -> <<"T", "e", "s", "t", " ", "C", "u", "s", "t", "o", "m", "e", "r">>

\* String.prototype.toLowerCase, one character
LowerChar(c) ==
  CASE c = "A" -> "a" [] c = "B" -> "b" [] c = "D" -> "d" [] c = "I" -> "i"
    [] c = "M" -> "m" [] c = "N" -> "n" [] c = "O" -> "o" [] c = "R" -> "r"
    [] c = "S" -> "s" [] c = "T" -> "t" [] c = "C" -> "c" [] c = "E" -> "e"
    [] c = "G" -> "g" [] OTHER -> c

toLowerCase(cs) == [k \in 1..Len(cs) |-> LowerChar(cs[k])]

\* String.prototype.trim: drop leading and trailing white space
RECURSIVE trimStart(_)
trimStart(cs) == IF cs # <<>> /\ Head(cs) = " " THEN trimStart(Tail(cs)) ELSE cs

RECURSIVE trimEnd(_)
trimEnd(cs) ==
  IF cs # <<>> /\ cs[Len(cs)] = " " THEN trimEnd(SubSeq(cs, 1, Len(cs) - 1)) ELSE cs

trim(cs) == trimEnd(trimStart(cs))

\* String.prototype.includes
includes(cs, sub) ==
  \E k \in 0..(Len(cs) - Len(sub)) : SubSeq(cs, k + 1, k + Len(sub)) = sub

\* UTF-16 code unit of the characters that occur in names
CharCode(c) ==
  CASE c = " " -> 32 [] c = "A" -> 65 [] c = "B" -> 66 [] c = "C" -> 67 [] c = "T" -> 84
    [] c = "a" -> 97 [] c = "b" -> 98 [] c = "e" -> 101 [] c = "m" -> 109 [] c = "n" -> 110
    [] c = "o" -> 111 [] c = "r" -> 114 [] c = "s" -> 115 [] c = "t" -> 116 [] c = "u" -> 117
    [] c = "y" -> 121

\* SQLite BINARY collation (memcmp): a < b
RECURSIVE BinaryLess(_, _)
BinaryLess(a, b) ==
  IF b = <<>> THEN FALSE
  ELSE IF a = <<>> THEN TRUE
  ELSE IF CharCode(Head(a)) # CharCode(Head(b)) THEN CharCode(Head(a)) < CharCode(Head(b))
  ELSE BinaryLess(Tail(a), Tail(b))

\* --------------------------------------------------------- role normalizers
\* customerStore.ts normalizeRole (the store's)
\* variant: the lowercased role is compared with 'admin' for equality
normalizeRoleExact(cs) ==
  IF toLowerCase(trim(cs)) = Chars("admin") THEN "Admin" ELSE "Manager"

\* String(role).trim().toLowerCase(), then includes('admin'), on the characters
normalizeRoleChars(cs) ==
  IF includes(toLowerCase(trim(cs)), Chars("admin")) THEN "Admin" ELSE "Manager"

normalizeRole(role) == normalizeRoleChars(Chars(role))

\* variant: the record is kept as given
normalizeCustomerAsGiven(c) == c

normalizeCustomer(c) == [c EXCEPT !.role = normalizeRole(c.role)]

normalizeCustomers(cs) == [k \in 1..Len(cs) |-> normalizeCustomer(cs[k])]

\* variant: only the exact names are recognised, anything else is 'Manager'
dbNormalizeRoleExact(role) ==
  IF toLowerCase(trim(Chars(role))) = Chars("admin") THEN "Admin" ELSE "Manager"

\* variant: includes() is applied to the trimmed role as given, not lowercased
dbNormalizeRoleCaseSensitive(cs) ==
  LET normalizedRole == trim(cs)
      lower == toLowerCase(normalizedRole)
  IN  IF lower = Chars("admin") \/ normalizedRole = Chars("ADMIN") THEN "Admin"
      ELSE IF lower = Chars("manager") \/ normalizedRole = Chars("MANAGER") THEN "Manager"
      ELSE IF includes(normalizedRole, Chars("admin")) THEN "Admin"
      ELSE "Manager"

\* DatabaseService.normalizeRole (the adapter's), branch by branch, on the characters
dbNormalizeRoleChars(cs) ==
  LET normalizedRole == trim(cs)
      lower == toLowerCase(normalizedRole)
  IN  IF lower = Chars("admin") \/ normalizedRole = Chars("ADMIN") THEN "Admin"
      ELSE IF lower = Chars("manager") \/ normalizedRole = Chars("MANAGER") THEN "Manager"
      ELSE IF includes(lower, Chars("admin")) THEN "Admin"
      ELSE IF includes(lower, Chars("manager")) THEN "Manager"
      ELSE IF lower \in {Chars("administrator"), Chars("admin_user"), Chars("system_admin")}
        THEN "Admin"
      ELSE IF lower \in {Chars("team_manager"), Chars("project_manager"), Chars("manager_user")}
        THEN "Manager"
      ELSE "Manager"

dbNormalizeRole(role) == dbNormalizeRoleChars(Chars(role))

\* ------------------------------------------------------------------- data
\* JS null (error: string | null)
null == "null"

Cust(id, name, email, role) == [id |-> id, name |-> name, email |-> email, role |-> role]

\* what GraphQLService.fetchAllCustomers may resolve to (response.items)
RemoteItems ==
  { <<>>,
    <<Cust("r1", "Bob", "bob@z.co", "ADMINISTRATOR")>>,
    <<Cust("r2", "amy", "amy@z.co", "manager"), Cust("r1", "Bob", "bob@z.co", "ADMINISTRATOR")>> }

\* variant: the build mirrors mutations
ENABLE_REMOTE_MUTATIONS_On == TRUE

\* const ENABLE_REMOTE_MUTATIONS = false
ENABLE_REMOTE_MUTATIONS == FALSE

\* ids the remote source gives to a created customer
RemoteNewIds == {"r3"}

\* arguments of addCustomer (Omit<ZellerCustomer, 'id'>)
AddInputs == { [name |-> "Ann", email |-> "ann@z.co", role |-> " admin "] }

\* arguments of updateCustomer
UpdateInputs == { Cust(id, "Ann", "ann@z.co", "guest") : id \in {"r1", "n1"} }

\* arguments of deleteCustomer
DeleteInputs == {"r1", "n1"}

\* 'test-' + Date.now(), for the clock values a self-test may see
TestIds == {"test-1", "test-2"}

\* arguments of setSearchTerm; searchTerm starts as ''
SearchTerms == {" ", "a", "B "}

UserRoles == {"All", "Admin", "Manager"}

LoadProcs == {1, 2}

\* records handed to DatabaseService.insertCustomer / updateCustomer
DbRecords ==
  { Cust("r1", "Bob", "bob@z.co", "ADMINISTRATOR"),
    Cust("r2", "amy", "amy@z.co", "manager"),
    Cust("r1", "Ann", "ann@z.co", " admin "),
    Cust("r3", "Ann", "ann@z.co", "guest") }

\* lists handed to DatabaseService.insertCustomers
DbLists ==
  { <<>>,
    <<Cust("r2", "amy", "amy@z.co", "manager"), Cust("r1", "Bob", "bob@z.co", "ADMINISTRATOR")>>,
    <<Cust("r1", "Bob", "bob@z.co", "ADMINISTRATOR"), Cust("r3", "Ann", "ann@z.co", "guest"),
      Cust("r1", "Ann", "ann@z.co", " admin ")>> }

\* ids handed to DatabaseService.deleteCustomer
DbIds == {"r1", "r3"}

\* pieces of role strings: blanks, the halves of 'admin' in both cases, a letter,
\* 'manager'
RoleTokens ==
  { <<" ">>, <<"a", "d">>, <<"m", "i", "n">>, <<"A", "D">>, <<"M", "I", "N">>, <<"e">>,
    <<"m", "a", "n", "a", "g", "e", "r">> }

\* the strings made of at most n pieces
RECURSIVE RoleStrings(_)
RoleStrings(n) ==
  IF n = 0 THEN {<<>>}
  ELSE LET shorter == RoleStrings(n - 1)
       IN  shorter \cup {s \o tok : s \in shorter, tok \in RoleTokens}

\* arguments of normalizeRole
RoleInputs == RoleStrings(MaxRoleTokens)

\* ------------------------------------------------- SQL on the customers table
\* The table is the sequence of its rows in rowid order; id is the primary key.
SqlDelete(tbl, id) == SelectSeq(tbl, LAMBDA r : r.id # id)

\* variant: plain INSERT semantics, the row is appended whatever the table holds
SqlInsertAppend(tbl, row) == Append(tbl, row)

\* INSERT OR REPLACE: a row with the same id is deleted, the new row is appended
SqlInsertOrReplace(tbl, row) == Append(SqlDelete(tbl, row.id), row)

\* UPDATE ... WHERE id = ?
SqlUpdate(tbl, row) == [k \in 1..Len(tbl) |-> IF tbl[k].id = row.id THEN row ELSE tbl[k]]

\* ORDER BY name ASC (BINARY collation), rows with equal names in rowid order
InsertByName(sorted, r) ==
  LET k == Cardinality({j \in 1..Len(sorted) :
                          ~BinaryLess(Chars(r.name), Chars(sorted[j].name))})
  IN  SubSeq(sorted, 1, k) \o <<r>> \o SubSeq(sorted, k + 1, Len(sorted))

RECURSIVE OrderByName(_)
OrderByName(tbl) ==
  IF tbl = <<>> THEN <<>>
  ELSE InsertByName(OrderByName(SubSeq(tbl, 1, Len(tbl) - 1)), tbl[Len(tbl)])

\* DatabaseService.getAllCustomers: every row, role normalized on read
getAllCustomers(tbl) ==
  LET rows == OrderByName(tbl)
  IN  [k \in 1..Len(rows) |-> [rows[k] EXCEPT !.role = dbNormalizeRole(rows[k].role)]]

\* variant: the role is bound as given, without normalizeRole
dbRowRaw(customer) == customer

\* the row DatabaseService.insertCustomer / updateCustomer binds to the statement
dbRow(customer) == [customer EXCEPT !.role = dbNormalizeRole(customer.role)]

\* DatabaseService.testInsertSingleCustomer's throwaway record
testCustomer(tid) == Cust(tid, "Test Customer", "test@example.com", "Admin")

\* ------------------------------------------------------------ filterCustomers
\* variant: the search term is compared as typed
FilterAsTyped(cs, role, term) ==
  LET byRole == IF role # "All" THEN SelectSeq(cs, LAMBDA c : c.role = role) ELSE cs
  IN  IF Chars(term) # <<>>
        THEN SelectSeq(byRole, LAMBDA c : includes(Chars(c.name), Chars(term)))
        ELSE byRole

\* the list filterCustomers() stores in filteredCustomers
Filter(cs, role, term) ==
  LET byRole == IF role # "All" THEN SelectSeq(cs, LAMBDA c : c.role = role) ELSE cs
      searchLower == trim(toLowerCase(Chars(term)))
  IN  IF trim(Chars(term)) # <<>>
        THEN SelectSeq(byRole, LAMBDA c : includes(toLowerCase(Chars(c.name)), searchLower))
        ELSE byRole

\* ------------------------------------------------------------------ state
VARIABLES
  \* useCustomerStore state
  customers, filteredCustomers, loading, error, searchTerm, selectedRole, refreshing,
  \* DatabaseService: the handle, and the medium behind it
  database, tableExists, roleCheck, table,
  \* App.initializeDatabase / databaseReady
  app,
  \* in-flight invocations: loadCustomers (two slots), refreshCustomers, addCustomer,
  \* updateCustomer, deleteCustomer
  ld, rf, ad, up, de,
  \* pending setTimeout(() => filterCustomers(), 0) callbacks
  timers,
  \* number of distinct ids createLocalCustomer has produced so far
  nextId,
  \* per loadCustomers slot: the ids addCustomer appended while it was in flight
  \* (and no deleteCustomer removed since)
  addedDuring,
  \* operations that may still be invoked, calls that may still be rejected
  opsLeft, faultsLeft,
  \* the value the build gives ENABLE_REMOTE_MUTATIONS
  remoteMutations,
  \* a direct application of normalizeRole: its argument and what it returned
  norm,
  \* a direct caller of the DatabaseService: the call in progress and its outcome
  call,
  \* a direct application of ValidationUtils.validateForm: the form and the errors
  form

vars ==
  <<customers, filteredCustomers, loading, error, searchTerm, selectedRole, refreshing,
    database, tableExists, roleCheck, table, app, ld, rf, ad, up, de, timers, nextId,
    addedDuring, opsLeft, faultsLeft, remoteMutations, norm, call, form>>

storeVars ==
  <<customers, filteredCustomers, loading, error, searchTerm, selectedRole, refreshing>>

dbVars == <<database, tableExists, roleCheck, table>>

\* createLocalCustomer's id: Date.now().toString() + Math.random().toString(36).slice(2, 9),
\* the n-th distinct value produced so far
LocalId(n) == CASE n = 1 -> "n1" [] n = 2 -> "n2" [] n = 3 -> "n3" [] OTHER -> "n4"

\* a loadCustomers slot that is not running; the fields keep what its last run saw
LoadIdle ==
  [pc |-> "idle", tid |-> "", count |-> -1, items |-> <<>>, i |-> 0, rows |-> <<>>,
   fetches |-> 0, seedWrites |-> 0, drops |-> 0, msg |-> "none", seed |-> "none",
   diag |-> "none", failed |-> {},
   result |-> "none"]

RefreshIdle == [pc |-> "idle", rows |-> <<>>, failed |-> FALSE, result |-> "none"]

\* remote: how the mirrored GraphQLService call of the invocation settled
MutationIdle == [pc |-> "idle", arg |-> "", remote |-> "none", result |-> "none"]

\* no application of normalizeRole under way
NormIdle == [input |-> <<>>, output |-> "none", again |-> "none", db |-> "none",
             written |-> "none", read |-> "none"]

\* no DatabaseService call under way
CallIdle == [op |-> "none", pc |-> "idle", args |-> <<>>, i |-> 0, before |-> <<>>,
             rows |-> <<>>, count |-> -1, result |-> "none"]

\* no form validated
FormIdle == [data |-> [name |-> <<>>, email |-> <<>>, role |-> <<>>], done |-> FALSE,
             errors |-> <<>>]

Init0 ==
  /\ call = CallIdle
  /\ customers = <<>>
  /\ filteredCustomers = <<>>
  /\ loading = FALSE
  /\ error = null
  /\ searchTerm = ""
  /\ selectedRole = "All"
  /\ refreshing = FALSE
  /\ database = "null"
  /\ tableExists = FALSE
  /\ roleCheck = FALSE
  /\ table = <<>>
  /\ app = "open"
  /\ ld = [p \in LoadProcs |-> LoadIdle]
  /\ rf = RefreshIdle
  /\ ad = MutationIdle
  /\ up = MutationIdle
  /\ de = MutationIdle
  /\ timers = 0
  /\ nextId = 0
  /\ addedDuring = [p \in LoadProcs |-> {}]

Init ==
  /\ Init0
  /\ norm = NormIdle
  /\ form = FormIdle
  /\ opsLeft = MaxOps
  /\ faultsLeft = MaxFaults
  /\ remoteMutations = ENABLE_REMOTE_MUTATIONS

SeqInit ==
  /\ Init0
  /\ norm = NormIdle
  /\ form = FormIdle
  /\ opsLeft = SeqMaxOps
  /\ faultsLeft = SeqMaxFaults
  /\ remoteMutations = ENABLE_REMOTE_MUTATIONS

\* the build with ENABLE_REMOTE_MUTATIONS set to true
RemoteInit ==
  /\ Init0
  /\ norm = NormIdle
  /\ form = FormIdle
  /\ opsLeft = RemoteMaxOps
  /\ faultsLeft = RemoteMaxFaults
  /\ remoteMutations = TRUE

\* the state a first loadCustomers leaves when it seeded the two remote items:
\* the table in insertion order, the list as getAllCustomers returned it
LoadedTable ==
  <<dbRow(Cust("r2", "amy", "amy@z.co", "manager")),
    dbRow(Cust("r1", "Bob", "bob@z.co", "ADMINISTRATOR"))>>

LoadedCustomers == getAllCustomers(LoadedTable)

LoadedSlot ==
  [LoadIdle EXCEPT !.count = 0, !.fetches = 1, !.seedWrites = 1, !.seed = "ok", !.diag = "ok",
                   !.result = "ok"]

\* the store and the adapter after that load, nothing in flight
Loaded ==
  /\ customers = LoadedCustomers
  /\ filteredCustomers = LoadedCustomers
  /\ loading = FALSE
  /\ error = null
  /\ searchTerm = ""
  /\ selectedRole = "All"
  /\ refreshing = FALSE
  /\ database = "open"
  /\ tableExists = TRUE
  /\ roleCheck = TRUE
  /\ table = LoadedTable
  /\ app = "ready"
  /\ ld = [p \in LoadProcs |-> IF p = 1 THEN LoadedSlot ELSE LoadIdle]
  /\ rf = RefreshIdle
  /\ ad = MutationIdle
  /\ up = MutationIdle
  /\ de = MutationIdle
  /\ timers = 0
  /\ nextId = 0
  /\ addedDuring = [p \in LoadProcs |-> {}]
  /\ norm = NormIdle
  /\ call = CallIdle
  /\ form = FormIdle

\* mutations on the loaded list
MutInit ==
  /\ Loaded
  /\ opsLeft = MutMaxOps
  /\ faultsLeft = MutMaxFaults
  /\ remoteMutations = ENABLE_REMOTE_MUTATIONS

\* ------------------------------------------------------------ the medium
\* executeSql on the customers table resolves only with an open handle and an
\* existing table; otherwise it rejects.  The medium may also reject on its own.
SqlReady == database = "open" /\ tableExists

Accepts == SqlReady /\ faultsLeft' = faultsLeft

Rejects ==
  IF SqlReady THEN faultsLeft > 0 /\ faultsLeft' = faultsLeft - 1 ELSE faultsLeft' = faultsLeft

\* the messages an INSERT of row can be rejected with in the current state
CheckFails(row) == roleCheck /\ row.role \notin {"Admin", "Manager"}

InsertErrors(row) ==
  IF database # "open" THEN {"Database not initialized"}
  ELSE IF ~tableExists THEN {"no such table: customers"}
  ELSE IF CheckFails(row) THEN {"CHECK constraint failed: role"}
  ELSE IF faultsLeft > 0
    THEN {"disk I/O error"} \cup (IF roleCheck THEN {"CHECK constraint failed: role"} ELSE {})
  ELSE {}

InsertAccepts(row) == SqlReady /\ ~CheckFails(row) /\ faultsLeft' = faultsLeft

InsertRejects(row) ==
  IF SqlReady /\ ~CheckFails(row) THEN faultsLeft > 0 /\ faultsLeft' = faultsLeft - 1
  ELSE faultsLeft' = faultsLeft

\* --------------------------------------------------- App.initializeDatabase
\* variant: the screen is shown whether or not initDatabase resolved
AppAfterInitFailureReady == "ready"

\* App.initializeDatabase's catch: an alert, databaseReady stays false
AppAfterInitFailure == "failed"

\* DatabaseService.initDatabase: SQLite.openDatabase
OpenDatabase ==
  /\ app = "open"
  /\ \/ /\ database' = "open"
        /\ app' = "create"
        /\ faultsLeft' = faultsLeft
     \/ /\ faultsLeft > 0
        /\ faultsLeft' = faultsLeft - 1
        /\ database' = database
        /\ app' = AppAfterInitFailure
  /\ UNCHANGED <<storeVars, tableExists, roleCheck, table, ld, rf, ad, up, de, timers, nextId,
                 addedDuring, opsLeft>>
  /\ UNCHANGED <<remoteMutations, norm, call, form>>

\* DatabaseService.createTables: CREATE TABLE IF NOT EXISTS ... CHECK (role IN ...),
\* then setDatabaseReady(true)
CreateTables ==
  /\ app = "create"
  /\ \/ /\ database = "open"
        /\ tableExists' = TRUE
        /\ roleCheck' = (IF tableExists THEN roleCheck ELSE TRUE)
        /\ app' = "ready"
        /\ faultsLeft' = faultsLeft
     \/ /\ IF database = "open" THEN faultsLeft > 0 /\ faultsLeft' = faultsLeft - 1
           ELSE faultsLeft' = faultsLeft
        /\ app' = AppAfterInitFailure
        /\ UNCHANGED <<tableExists, roleCheck>>
  /\ UNCHANGED <<storeVars, database, table, ld, rf, ad, up, de, timers, nextId, addedDuring,
                 opsLeft>>
  /\ UNCHANGED <<remoteMutations, norm, call, form>>

\* ------------------------------------------------------------ loadCustomers
LoadMsg == "Failed to load customers"

InFlight(r) == r.pc # "idle"

\* variant: the remote fetch is attempted whatever the count
AfterCountAlways(n) == "fetch"

\* if (customerCount === 0) -> the seeding branch, else straight to the local read
AfterCount(n) == IF n = 0 THEN "fetch" ELSE "getAll"

\* variant: no catch around the seeding branch
SeedFailurePcThrow == "catch"

\* catch (networkError) { } around the seeding branch: whatever it throws is
\* dropped and the load goes on to the local read
SeedFailurePc == "getAll"

\* an error thrown outside the seeding branch reaches the outer catch
OuterFailurePc == "catch"

\* set({loading: true, error: null}); the probe is issued
StartLoad(p) ==
  /\ app = "ready"
  /\ ld[p].pc = "idle"
  /\ \A q \in LoadProcs : q < p => InFlight(ld[q])
  /\ opsLeft > 0
  /\ opsLeft' = opsLeft - 1
  /\ loading' = TRUE
  /\ error' = null
  /\ ld' = [ld EXCEPT ![p] = [LoadIdle EXCEPT !.pc = "probe"]]
  /\ addedDuring' = [addedDuring EXCEPT ![p] = {}]
  /\ UNCHANGED <<customers, filteredCustomers, searchTerm, selectedRole, refreshing,
                 dbVars, app, rf, ad, up, de, timers, nextId, faultsLeft>>
  /\ UNCHANGED <<remoteMutations, norm, call, form>>

\* testDatabaseConnection resolves; on true the self-test's insert is issued,
\* on false the count
LoadProbe(p) ==
  /\ ld[p].pc = "probe"
  /\ \/ /\ Accepts
        /\ \E tid \in TestIds : ld' = [ld EXCEPT ![p].pc = "stInsert", ![p].tid = tid]
     \/ /\ Rejects
        /\ ld' = [ld EXCEPT ![p].pc = "count", ![p].diag = "probeFalse"]
  /\ UNCHANGED <<storeVars, dbVars, app, rf, ad, up, de, timers, nextId, addedDuring, opsLeft>>
  /\ UNCHANGED <<remoteMutations, norm, call, form>>

\* testInsertSingleCustomer: insertCustomer(testCustomer)
LoadSelfTestInsert(p) ==
  /\ ld[p].pc = "stInsert"
  /\ LET row == dbRow(testCustomer(ld[p].tid))
     IN  \/ /\ InsertAccepts(row)
            /\ table' = SqlInsertOrReplace(table, row)
            /\ ld' = [ld EXCEPT ![p].pc = "stDelete"]
         \/ /\ InsertRejects(row)
            /\ table' = table
            /\ ld' = [ld EXCEPT ![p].pc = OuterFailurePc, ![p].diag = "selfTestFailed",
                                ![p].tid = "",
                                ![p].failed = @ \cup {"selfTest"}]
  /\ UNCHANGED <<storeVars, database, tableExists, roleCheck, app, rf, ad, up, de, timers,
                 nextId, addedDuring, opsLeft>>
  /\ UNCHANGED <<remoteMutations, norm, call, form>>

\* testInsertSingleCustomer: deleteCustomer(testCustomer.id); then the count is issued
LoadSelfTestDelete(p) ==
  /\ ld[p].pc = "stDelete"
  /\ \/ /\ Accepts
        /\ table' = SqlDelete(table, ld[p].tid)
        /\ ld' = [ld EXCEPT ![p].pc = "count", ![p].diag = "ok", ![p].tid = ""]
     \/ /\ Rejects
        /\ table' = table
        /\ ld' = [ld EXCEPT ![p].pc = OuterFailurePc, ![p].diag = "selfTestFailed",
                                ![p].tid = "",
                            ![p].failed = @ \cup {"selfTest"}]
  /\ UNCHANGED <<storeVars, database, tableExists, roleCheck, app, rf, ad, up, de, timers,
                 nextId, addedDuring, opsLeft>>
  /\ UNCHANGED <<remoteMutations, norm, call, form>>

\* getCustomerCount resolves; customerCount === 0 issues the remote fetch,
\* anything else the local read
LoadCount(p) ==
  /\ ld[p].pc = "count"
  /\ \/ /\ Accepts
        /\ ld' = [ld EXCEPT ![p].count = Len(table), ![p].pc = AfterCount(Len(table))]
     \/ /\ Rejects
        /\ ld' = [ld EXCEPT ![p].pc = OuterFailurePc, ![p].failed = @ \cup {"count"}]
  /\ UNCHANGED <<storeVars, dbVars, app, rf, ad, up, de, timers, nextId, addedDuring, opsLeft>>
  /\ UNCHANGED <<remoteMutations, norm, call, form>>

\* GraphQLService.fetchAllCustomers settles; non-empty items issue insertCustomers
LoadFetch(p) ==
  /\ ld[p].pc = "fetch"
  /\ \/ /\ faultsLeft' = faultsLeft
        /\ \E items \in RemoteItems :
             ld' = [ld EXCEPT ![p].fetches = @ + 1,
                              ![p].items = items,
                              ![p].i = 1,
                              ![p].seedWrites = IF Len(items) > 0 THEN 1 ELSE 0,
                              ![p].pc = IF Len(items) > 0 THEN "insert" ELSE "getAll"]
     \/ /\ faultsLeft > 0
        /\ faultsLeft' = faultsLeft - 1
        /\ ld' = [ld EXCEPT ![p].fetches = @ + 1, ![p].pc = SeedFailurePc,
                            ![p].seed = "failed", ![p].failed = @ \cup {"fetch"}]
  /\ UNCHANGED <<storeVars, dbVars, app, rf, ad, up, de, timers, nextId, addedDuring, opsLeft>>
  /\ UNCHANGED <<remoteMutations, norm, call, form>>

\* insertCustomers(response.items), one insertCustomer at a time, first attempt
\* ("insert") or retry after recreateTableWithoutConstraint ("reinsert")
\* variant: every failed seeding write is taken for a role constraint failure
IsRoleConstraintErrorAlways(msg) == TRUE

\* insertError.message.includes('CHECK constraint failed: role')
IsRoleConstraintError(msg) == msg = "CHECK constraint failed: role"

LoadInsert(p) ==
  /\ ld[p].pc \in {"insert", "reinsert"}
  /\ LET row == dbRow(ld[p].items[ld[p].i])
     IN  \/ /\ InsertAccepts(row)
            /\ table' = SqlInsertOrReplace(table, row)
            /\ ld' = [ld EXCEPT ![p].i = @ + 1,
                                ![p].pc = IF ld[p].i = Len(ld[p].items) THEN "verify" ELSE @,
                                ![p].seed = IF ld[p].i = Len(ld[p].items) THEN "ok" ELSE @]
         \/ /\ InsertRejects(row)
            /\ table' = table
            /\ \E msg \in InsertErrors(row) :
                 IF ld[p].pc = "insert" /\ IsRoleConstraintError(msg)
                   THEN ld' = [ld EXCEPT ![p].pc = "drop",
                                         ![p].drops = @ + 1,
                                         ![p].msg = msg,
                                         ![p].failed = @ \cup {"seedWrite"}]
                   ELSE ld' = [ld EXCEPT ![p].pc = SeedFailurePc,
                                         ![p].seed = "failed",
                                         ![p].msg = msg,
                                         ![p].failed = @ \cup
                                           {IF ld[p].pc = "insert" THEN "seedWrite"
                                            ELSE "retryWrite"}]
  /\ UNCHANGED <<storeVars, database, tableExists, roleCheck, app, rf, ad, up, de, timers,
                 nextId, addedDuring, opsLeft>>
  /\ UNCHANGED <<remoteMutations, norm, call, form>>

\* recreateTableWithoutConstraint: DROP TABLE IF EXISTS customers
LoadDrop(p) ==
  /\ ld[p].pc = "drop"
  /\ \/ /\ database = "open"
        /\ faultsLeft' = faultsLeft
        /\ tableExists' = FALSE
        /\ roleCheck' = FALSE
        /\ table' = <<>>
        /\ ld' = [ld EXCEPT ![p].pc = "create"]
     \/ /\ IF database = "open" THEN faultsLeft > 0 /\ faultsLeft' = faultsLeft - 1
           ELSE faultsLeft' = faultsLeft
        /\ UNCHANGED <<tableExists, roleCheck, table>>
        /\ ld' = [ld EXCEPT ![p].pc = SeedFailurePc, ![p].seed = "failed",
                            ![p].failed = @ \cup {"recreate"}]
  /\ UNCHANGED <<storeVars, database, app, rf, ad, up, de, timers, nextId, addedDuring, opsLeft>>
  /\ UNCHANGED <<remoteMutations, norm, call, form>>

\* recreateTableWithoutConstraint: CREATE TABLE customers (no CHECK); then the
\* retry insertCustomers(response.items) is issued
LoadCreate(p) ==
  /\ ld[p].pc = "create"
  /\ \/ /\ database = "open"
        /\ ~tableExists
        /\ faultsLeft' = faultsLeft
        /\ tableExists' = TRUE
        /\ roleCheck' = FALSE
        /\ table' = <<>>
        /\ ld' = [ld EXCEPT ![p].pc = "reinsert", ![p].i = 1, ![p].seedWrites = @ + 1]
     \/ /\ IF database = "open" /\ ~tableExists
             THEN faultsLeft > 0 /\ faultsLeft' = faultsLeft - 1
             ELSE faultsLeft' = faultsLeft
        /\ UNCHANGED <<tableExists, roleCheck, table>>
        /\ ld' = [ld EXCEPT ![p].pc = SeedFailurePc, ![p].seed = "failed",
                            ![p].failed = @ \cup {"recreate"}]
  /\ UNCHANGED <<storeVars, database, app, rf, ad, up, de, timers, nextId, addedDuring, opsLeft>>
  /\ UNCHANGED <<remoteMutations, norm, call, form>>

\* the verifying getAllCustomers after seeding; customers = verifyCustomers
LoadVerify(p) ==
  /\ ld[p].pc = "verify"
  /\ \/ /\ Accepts
        /\ ld' = [ld EXCEPT ![p].rows = getAllCustomers(table),
                            ![p].pc = IF Len(getAllCustomers(table)) = 0 THEN "getAll"
                                      ELSE "publish"]
     \/ /\ Rejects
        /\ ld' = [ld EXCEPT ![p].pc = SeedFailurePc, ![p].failed = @ \cup {"verify"}]
  /\ UNCHANGED <<storeVars, dbVars, app, rf, ad, up, de, timers, nextId, addedDuring, opsLeft>>
  /\ UNCHANGED <<remoteMutations, norm, call, form>>

\* if (customers.length === 0) customers = await getAllCustomers()
LoadGetAll(p) ==
  /\ ld[p].pc = "getAll"
  /\ \/ /\ Accepts
        /\ ld' = [ld EXCEPT ![p].rows = getAllCustomers(table), ![p].pc = "publish"]
     \/ /\ Rejects
        /\ ld' = [ld EXCEPT ![p].pc = OuterFailurePc, ![p].failed = @ \cup {"getAll"}]
  /\ UNCHANGED <<storeVars, dbVars, app, rf, ad, up, de, timers, nextId, addedDuring, opsLeft>>
  /\ UNCHANGED <<remoteMutations, norm, call, form>>

\* set({customers: normalizeCustomers(customers)}); filterCustomers();
\* finally set({loading: false})
LoadPublish(p) ==
  /\ ld[p].pc = "publish"
  /\ customers' = normalizeCustomers(ld[p].rows)
  /\ filteredCustomers' = Filter(customers', selectedRole, searchTerm)
  /\ loading' = FALSE
  /\ addedDuring' = [addedDuring EXCEPT ![p] = {}]
  /\ ld' = [ld EXCEPT ![p].pc = "idle", ![p].result = "ok", ![p].rows = <<>>,
                      ![p].items = <<>>, ![p].i = 0]
  /\ UNCHANGED <<error, searchTerm, selectedRole, refreshing, dbVars, app, rf, ad, up, de,
                 timers, nextId, opsLeft, faultsLeft>>
  /\ UNCHANGED <<remoteMutations, norm, call, form>>

\* catch (error) set({error: 'Failed to load customers'}); finally set({loading: false})
LoadCatch(p) ==
  /\ ld[p].pc = "catch"
  /\ error' = LoadMsg
  /\ loading' = FALSE
  /\ addedDuring' = [addedDuring EXCEPT ![p] = {}]
  /\ ld' = [ld EXCEPT ![p].pc = "idle", ![p].result = "error", ![p].rows = <<>>,
                      ![p].items = <<>>, ![p].i = 0]
  /\ UNCHANGED <<customers, filteredCustomers, searchTerm, selectedRole, refreshing, dbVars,
                 app, rf, ad, up, de, timers, nextId, opsLeft, faultsLeft>>
  /\ UNCHANGED <<remoteMutations, norm, call, form>>

\* --------------------------------------------------------- refreshCustomers
RefreshMsg == "Failed to refresh customers"

\* set({refreshing: true, error: null}); getAllCustomers is issued
StartRefresh ==
  /\ app = "ready"
  /\ rf.pc = "idle"
  /\ opsLeft > 0
  /\ opsLeft' = opsLeft - 1
  /\ refreshing' = TRUE
  /\ error' = null
  /\ rf' = [RefreshIdle EXCEPT !.pc = "getAll"]
  /\ UNCHANGED <<customers, filteredCustomers, loading, searchTerm, selectedRole, dbVars, app,
                 ld, ad, up, de, timers, nextId, addedDuring, faultsLeft>>
  /\ UNCHANGED <<remoteMutations, norm, call, form>>

\* variant: a rejected read is swallowed and an empty list is published
RefreshFailurePcSilent == "publish"

\* a rejected getAllCustomers reaches catch (error)
RefreshFailurePc == "catch"

RECURSIVE InsertAll(_, _)
InsertAll(tbl, items) ==
  IF items = <<>> THEN tbl
  ELSE InsertAll(SqlInsertOrReplace(tbl, dbRow(Head(items))), Tail(items))

\* variant: the refresh fetches from the remote source, writes the items to the
\* table and publishes them
RefreshGetAllRemote ==
  /\ rf.pc = "getAll"
  /\ \E items \in RemoteItems :
       /\ table' = InsertAll(table, items)
       /\ rf' = [rf EXCEPT !.rows = items, !.pc = "publish"]
  /\ UNCHANGED <<storeVars, database, tableExists, roleCheck, app, ld, ad, up, de, timers,
                 nextId, addedDuring, opsLeft, faultsLeft>>
  /\ UNCHANGED <<remoteMutations, norm, call, form>>

\* getAllCustomers settles
RefreshGetAll ==
  /\ rf.pc = "getAll"
  /\ \/ /\ Accepts
        /\ rf' = [rf EXCEPT !.rows = getAllCustomers(table), !.pc = "publish"]
     \/ /\ Rejects
        /\ rf' = [rf EXCEPT !.pc = RefreshFailurePc, !.failed = TRUE]
  /\ UNCHANGED <<storeVars, dbVars, app, ld, ad, up, de, timers, nextId, addedDuring, opsLeft>>
  /\ UNCHANGED <<remoteMutations, norm, call, form>>

\* set({customers: normalizeCustomers(localCustomers)}); filterCustomers();
\* finally set({refreshing: false})
RefreshPublish ==
  /\ rf.pc = "publish"
  /\ customers' = normalizeCustomers(rf.rows)
  /\ filteredCustomers' = Filter(customers', selectedRole, searchTerm)
  /\ refreshing' = FALSE
  /\ rf' = [rf EXCEPT !.pc = "idle", !.result = "ok", !.rows = <<>>]
  /\ UNCHANGED <<loading, error, searchTerm, selectedRole, dbVars, app, ld, ad, up, de, timers,
                 nextId, addedDuring, opsLeft, faultsLeft>>
  /\ UNCHANGED <<remoteMutations, norm, call, form>>

\* catch: set({error: 'Failed to refresh customers'}); finally set({refreshing: false})
RefreshCatch ==
  /\ rf.pc = "catch"
  /\ error' = RefreshMsg
  /\ refreshing' = FALSE
  /\ rf' = [rf EXCEPT !.pc = "idle", !.result = "error"]
  /\ UNCHANGED <<customers, filteredCustomers, loading, searchTerm, selectedRole, dbVars, app,
                 ld, ad, up, de, timers, nextId, addedDuring, opsLeft, faultsLeft>>
  /\ UNCHANGED <<remoteMutations, norm, call, form>>

\* --------------------------------------------------------------- addCustomer
AddMsg == "Failed to add customer"

\* variant: a rejected remote update or delete fails the whole operation
RemoteFailurePcCatch(local) == "catch"

\* where a rejected GraphQLService.updateCustomer / deleteCustomer takes the
\* invocation: the inner catch logs and the local call is issued
RemoteFailurePc(local) == local

\* newCustomer = createLocalCustomer(customerData).  The id is built from the wall
\* clock and a random suffix and compared with nothing: it is a value not
\* produced before (n = nextId + 1), or the clock reading and the suffix of an
\* earlier call again.
createLocalCustomer(r, remote) ==
  \E n \in 1..(nextId + 1) :
    /\ nextId' = IF n > nextId THEN n ELSE nextId
    /\ ad' = [pc |-> "insert",
              arg |-> Cust(LocalId(n), r.name, r.email, r.role),
              remote |-> remote,
              result |-> "none"]

\* if (ENABLE_REMOTE_MUTATIONS) GraphQLService.createCustomer(customerData) is
\* issued; else newCustomer = createLocalCustomer(customerData) and
\* insertCustomer(newCustomer) is issued
StartAdd(input) ==
  /\ app = "ready"
  /\ ad.pc = "idle"
  /\ opsLeft > 0
  /\ opsLeft' = opsLeft - 1
  /\ IF remoteMutations
       THEN /\ ad' = [pc |-> "remote",
                      arg |-> Cust("", input.name, input.email, input.role),
                      remote |-> "none",
                      result |-> "none"]
            /\ nextId' = nextId
       ELSE createLocalCustomer(input, "none")
  /\ UNCHANGED <<storeVars, dbVars, app, ld, rf, up, de, timers, addedDuring, faultsLeft>>
  /\ UNCHANGED <<remoteMutations, norm, call, form>>

\* GraphQLService.createCustomer settles: newCustomer is the created customer, or
\* on rejection createLocalCustomer(customerData); insertCustomer is issued
AddRemote ==
  /\ ad.pc = "remote"
  /\ \/ /\ faultsLeft' = faultsLeft
        /\ nextId' = nextId
        /\ \E id \in RemoteNewIds :
             ad' = [ad EXCEPT !.pc = "insert", !.arg.id = id, !.remote = "ok"]
     \/ /\ faultsLeft > 0
        /\ faultsLeft' = faultsLeft - 1
        /\ createLocalCustomer(ad.arg, "failed")
  /\ UNCHANGED <<storeVars, dbVars, app, ld, rf, up, de, timers, addedDuring, opsLeft>>
  /\ UNCHANGED <<remoteMutations, norm, call, form>>

\* variant: a rejected insertCustomer is ignored and the record is appended
AddFailurePcCommit == "commit"

\* where a rejected insertCustomer takes addCustomer: catch (error), lines 475-479
AddFailurePc == "catch"

\* insertCustomer settles
AddInsert ==
  /\ ad.pc = "insert"
  /\ \/ /\ InsertAccepts(dbRow(ad.arg))
        /\ table' = SqlInsertOrReplace(table, dbRow(ad.arg))
        /\ ad' = [ad EXCEPT !.pc = "commit"]
     \/ /\ InsertRejects(dbRow(ad.arg))
        /\ table' = table
        /\ ad' = [ad EXCEPT !.pc = AddFailurePc]
  /\ UNCHANGED <<storeVars, database, tableExists, roleCheck, app, ld, rf, up, de, timers,
                 nextId, addedDuring, opsLeft>>
  /\ UNCHANGED <<remoteMutations, norm, call, form>>

\* variant: the record is appended and filterCustomers() is not called
AddCommitNoFilter ==
  /\ ad.pc = "commit"
  /\ customers' = Append(customers, normalizeCustomer(ad.arg))
  /\ addedDuring' = [p \in LoadProcs |->
                        IF InFlight(ld[p]) THEN addedDuring[p] \cup {ad.arg.id}
                        ELSE addedDuring[p]]
  /\ ad' = [ad EXCEPT !.pc = "idle", !.result = "ok"]
  /\ UNCHANGED <<filteredCustomers, loading, error, searchTerm, selectedRole, refreshing, dbVars,
                 app, ld, rf, up, de, timers, nextId, opsLeft, faultsLeft>>
  /\ UNCHANGED <<remoteMutations, norm, call, form>>

\* set(state => ({customers: [...state.customers, normalizedCustomer]})); filterCustomers()
AddCommit ==
  /\ ad.pc = "commit"
  /\ customers' = Append(customers, normalizeCustomer(ad.arg))
  /\ filteredCustomers' = Filter(customers', selectedRole, searchTerm)
  /\ addedDuring' = [p \in LoadProcs |->
                        IF InFlight(ld[p]) THEN addedDuring[p] \cup {ad.arg.id}
                        ELSE addedDuring[p]]
  /\ ad' = [ad EXCEPT !.pc = "idle", !.result = "ok"]
  /\ UNCHANGED <<loading, error, searchTerm, selectedRole, refreshing, dbVars, app, ld, rf, up,
                 de, timers, nextId, opsLeft, faultsLeft>>
  /\ UNCHANGED <<remoteMutations, norm, call, form>>

\* catch: set({error: 'Failed to add customer'}); throw error
AddCatch ==
  /\ ad.pc = "catch"
  /\ error' = AddMsg
  /\ ad' = [ad EXCEPT !.pc = "idle", !.result = "threw"]
  /\ UNCHANGED <<customers, filteredCustomers, loading, searchTerm, selectedRole, refreshing,
                 dbVars, app, ld, rf, up, de, timers, nextId, addedDuring, opsLeft, faultsLeft>>
  /\ UNCHANGED <<remoteMutations, norm, call, form>>

\* ------------------------------------------------------------ updateCustomer
UpdateMsg == "Failed to update customer"

\* if (ENABLE_REMOTE_MUTATIONS) GraphQLService.updateCustomer(customer) is
\* issued; else dbService.updateCustomer(customer) is
StartUpdate(customer) ==
  /\ app = "ready"
  /\ up.pc = "idle"
  /\ opsLeft > 0
  /\ opsLeft' = opsLeft - 1
  /\ up' = [pc |-> IF remoteMutations THEN "remote" ELSE "update",
            arg |-> customer,
            remote |-> "none",
            result |-> "none"]
  /\ UNCHANGED <<storeVars, dbVars, app, ld, rf, ad, de, timers, nextId, addedDuring, faultsLeft>>
  /\ UNCHANGED <<remoteMutations, norm, call, form>>

\* GraphQLService.updateCustomer settles; a rejection is logged;
\* dbService.updateCustomer(customer) is issued
UpdateRemote ==
  /\ up.pc = "remote"
  /\ \/ /\ faultsLeft' = faultsLeft
        /\ up' = [up EXCEPT !.pc = "update", !.remote = "ok"]
     \/ /\ faultsLeft > 0
        /\ faultsLeft' = faultsLeft - 1
        /\ up' = [up EXCEPT !.pc = RemoteFailurePc("update"), !.remote = "failed"]
  /\ UNCHANGED <<storeVars, dbVars, app, ld, rf, ad, de, timers, nextId, addedDuring, opsLeft>>
  /\ UNCHANGED <<remoteMutations, norm, call, form>>

\* variant: a rejected UPDATE is ignored and customers is patched
UpdateFailurePcCommit == "commit"

\* where a rejected dbService.updateCustomer takes updateCustomer: catch (error),
\* lines 503-507
UpdateFailurePc == "catch"

\* UPDATE customers SET ... WHERE id = ? settles
UpdateSql ==
  /\ up.pc = "update"
  /\ \/ /\ InsertAccepts(dbRow(up.arg))
        /\ table' = SqlUpdate(table, dbRow(up.arg))
        /\ up' = [up EXCEPT !.pc = "commit"]
     \/ /\ InsertRejects(dbRow(up.arg))
        /\ table' = table
        /\ up' = [up EXCEPT !.pc = UpdateFailurePc]
  /\ UNCHANGED <<storeVars, database, tableExists, roleCheck, app, ld, rf, ad, de, timers,
                 nextId, addedDuring, opsLeft>>
  /\ UNCHANGED <<remoteMutations, norm, call, form>>

\* variant: a record whose id is not in the list is appended
PatchByIdOrAppend(cs, c) ==
  IF \E k \in 1..Len(cs) : cs[k].id = c.id
    THEN [k \in 1..Len(cs) |-> IF cs[k].id = c.id THEN c ELSE cs[k]]
    ELSE Append(cs, c)

\* state.customers.map(c => c.id === normalizedCustomer.id ? normalizedCustomer : c)
\* variant: the update maps over the list as it was loaded, not the current one
PatchByIdOfLoaded(cs, c) ==
  [k \in 1..Len(LoadedCustomers) |->
     IF LoadedCustomers[k].id = c.id THEN c ELSE LoadedCustomers[k]]

PatchById(cs, c) == [k \in 1..Len(cs) |-> IF cs[k].id = c.id THEN c ELSE cs[k]]

\* set(state => ({customers: state.customers.map(...)})); filterCustomers()
UpdateCommit ==
  /\ up.pc = "commit"
  /\ customers' = PatchById(customers, normalizeCustomer(up.arg))
  /\ filteredCustomers' = Filter(customers', selectedRole, searchTerm)
  /\ up' = [up EXCEPT !.pc = "idle", !.result = "ok"]
  /\ UNCHANGED <<loading, error, searchTerm, selectedRole, refreshing, dbVars, app, ld, rf, ad,
                 de, timers, nextId, addedDuring, opsLeft, faultsLeft>>
  /\ UNCHANGED <<remoteMutations, norm, call, form>>

\* catch: set({error: 'Failed to update customer'}); throw error
UpdateCatch ==
  /\ up.pc = "catch"
  /\ error' = UpdateMsg
  /\ up' = [up EXCEPT !.pc = "idle", !.result = "threw"]
  /\ UNCHANGED <<customers, filteredCustomers, loading, searchTerm, selectedRole, refreshing,
                 dbVars, app, ld, rf, ad, de, timers, nextId, addedDuring, opsLeft, faultsLeft>>
  /\ UNCHANGED <<remoteMutations, norm, call, form>>

\* ------------------------------------------------------------ deleteCustomer
DeleteMsg == "Failed to delete customer"

\* if (ENABLE_REMOTE_MUTATIONS) GraphQLService.deleteCustomer(id) is issued; else
\* dbService.deleteCustomer(id) is
StartDelete(id) ==
  /\ app = "ready"
  /\ de.pc = "idle"
  /\ opsLeft > 0
  /\ opsLeft' = opsLeft - 1
  /\ de' = [pc |-> IF remoteMutations THEN "remote" ELSE "delete",
            arg |-> id,
            remote |-> "none",
            result |-> "none"]
  /\ UNCHANGED <<storeVars, dbVars, app, ld, rf, ad, up, timers, nextId, addedDuring, faultsLeft>>
  /\ UNCHANGED <<remoteMutations, norm, call, form>>

\* GraphQLService.deleteCustomer settles; a rejection is logged;
\* dbService.deleteCustomer(id) is issued
DeleteRemote ==
  /\ de.pc = "remote"
  /\ \/ /\ faultsLeft' = faultsLeft
        /\ de' = [de EXCEPT !.pc = "delete", !.remote = "ok"]
     \/ /\ faultsLeft > 0
        /\ faultsLeft' = faultsLeft - 1
        /\ de' = [de EXCEPT !.pc = RemoteFailurePc("delete"), !.remote = "failed"]
  /\ UNCHANGED <<storeVars, dbVars, app, ld, rf, ad, up, timers, nextId, addedDuring, opsLeft>>
  /\ UNCHANGED <<remoteMutations, norm, call, form>>

\* where a rejected dbService.deleteCustomer takes deleteCustomer: catch (error),
\* lines 528-532
DeleteFailurePc == "catch"

\* DELETE FROM customers WHERE id = ? settles
DeleteSql ==
  /\ de.pc = "delete"
  /\ \/ /\ Accepts
        /\ table' = SqlDelete(table, de.arg)
        /\ addedDuring' = [p \in LoadProcs |-> addedDuring[p] \ {de.arg}]
        /\ de' = [de EXCEPT !.pc = "commit"]
     \/ /\ Rejects
        /\ UNCHANGED <<table, addedDuring>>
        /\ de' = [de EXCEPT !.pc = DeleteFailurePc]
  /\ UNCHANGED <<storeVars, database, tableExists, roleCheck, app, ld, rf, ad, up, timers,
                 nextId, opsLeft>>
  /\ UNCHANGED <<remoteMutations, norm, call, form>>

\* variant: only the first entry with the id is removed
RemoveFirstById(cs, id) ==
  LET hits == {k \in 1..Len(cs) : cs[k].id = id}
  IN  IF hits = {} THEN cs
      ELSE LET k == CHOOSE j \in hits : \A h \in hits : j <= h
           IN  SubSeq(cs, 1, k - 1) \o SubSeq(cs, k + 1, Len(cs))

\* state.customers.filter(c => c.id !== id)
RemoveById(cs, id) == SelectSeq(cs, LAMBDA c : c.id # id)

\* set(state => ({customers: state.customers.filter(c => c.id !== id)})); filterCustomers()
DeleteCommit ==
  /\ de.pc = "commit"
  /\ customers' = RemoveById(customers, de.arg)
  /\ filteredCustomers' = Filter(customers', selectedRole, searchTerm)
  /\ de' = [de EXCEPT !.pc = "idle", !.result = "ok"]
  /\ UNCHANGED <<loading, error, searchTerm, selectedRole, refreshing, dbVars, app, ld, rf, ad,
                 up, timers, nextId, addedDuring, opsLeft, faultsLeft>>
  /\ UNCHANGED <<remoteMutations, norm, call, form>>

\* catch: set({error: 'Failed to delete customer'}); throw error
DeleteCatch ==
  /\ de.pc = "catch"
  /\ error' = DeleteMsg
  /\ de' = [de EXCEPT !.pc = "idle", !.result = "threw"]
  /\ UNCHANGED <<customers, filteredCustomers, loading, searchTerm, selectedRole, refreshing,
                 dbVars, app, ld, rf, ad, up, timers, nextId, addedDuring, opsLeft, faultsLeft>>
  /\ UNCHANGED <<remoteMutations, norm, call, form>>

\* ------------------------------------------------------ filters, clearError
\* set({searchTerm: term}); setTimeout(() => get().filterCustomers(), 0)
SetSearchTerm(term) ==
  /\ app = "ready"
  /\ opsLeft > 0
  /\ timers < MaxTimers
  /\ opsLeft' = opsLeft - 1
  /\ searchTerm' = term
  /\ timers' = timers + 1
  /\ UNCHANGED <<customers, filteredCustomers, loading, error, selectedRole, refreshing, dbVars,
                 app, ld, rf, ad, up, de, nextId, addedDuring, faultsLeft>>
  /\ UNCHANGED <<remoteMutations, norm, call, form>>

\* variant: the role is set and no recomputation is scheduled
SetSelectedRoleOnly(role) ==
  /\ app = "ready"
  /\ opsLeft > 0
  /\ opsLeft' = opsLeft - 1
  /\ selectedRole' = role
  /\ UNCHANGED <<customers, filteredCustomers, loading, error, searchTerm, refreshing, dbVars,
                 app, ld, rf, ad, up, de, timers, nextId, addedDuring, faultsLeft>>
  /\ UNCHANGED <<remoteMutations, norm, call, form>>

\* set({selectedRole: role}); setTimeout(() => get().filterCustomers(), 0)
SetSelectedRole(role) ==
  /\ app = "ready"
  /\ opsLeft > 0
  /\ timers < MaxTimers
  /\ opsLeft' = opsLeft - 1
  /\ selectedRole' = role
  /\ timers' = timers + 1
  /\ UNCHANGED <<customers, filteredCustomers, loading, error, searchTerm, refreshing, dbVars,
                 app, ld, rf, ad, up, de, nextId, addedDuring, faultsLeft>>
  /\ UNCHANGED <<remoteMutations, norm, call, form>>

\* variant: the callback filters the list it produced last time
FilterTimerFromFiltered ==
  /\ timers > 0
  /\ timers' = timers - 1
  /\ filteredCustomers' = Filter(filteredCustomers, selectedRole, searchTerm)
  /\ UNCHANGED <<customers, loading, error, searchTerm, selectedRole, refreshing, dbVars, app,
                 ld, rf, ad, up, de, nextId, addedDuring, opsLeft, faultsLeft>>
  /\ UNCHANGED <<remoteMutations, norm, call, form>>

\* a scheduled callback runs filterCustomers()
FilterTimer ==
  /\ timers > 0
  /\ timers' = timers - 1
  /\ filteredCustomers' = Filter(customers, selectedRole, searchTerm)
  /\ UNCHANGED <<customers, loading, error, searchTerm, selectedRole, refreshing, dbVars, app,
                 ld, rf, ad, up, de, nextId, addedDuring, opsLeft, faultsLeft>>
  /\ UNCHANGED <<remoteMutations, norm, call, form>>

\* set({error: null})
\* variant: clearing the error also resets the search term and refilters
ClearErrorAndSearch ==
  /\ app = "ready"
  /\ error' = null
  /\ searchTerm' = ""
  /\ filteredCustomers' = Filter(customers, selectedRole, "")
  /\ UNCHANGED <<customers, loading, selectedRole, refreshing,
                 dbVars, app, ld, rf, ad, up, de, timers, nextId, addedDuring, opsLeft, faultsLeft>>
  /\ UNCHANGED <<remoteMutations, norm, call, form>>

ClearError ==
  /\ app = "ready"
  /\ error' = null
  /\ UNCHANGED <<customers, filteredCustomers, loading, searchTerm, selectedRole, refreshing,
                 dbVars, app, ld, rf, ad, up, de, timers, nextId, addedDuring, opsLeft, faultsLeft>>
  /\ UNCHANGED <<remoteMutations, norm, call, form>>

\* ------------------------------------------------------------ specifications
\* an operation is invoked
Starts ==
  \/ \E p \in LoadProcs : StartLoad(p)
  \/ StartRefresh
  \/ \E input \in AddInputs : StartAdd(input)
  \/ \E customer \in UpdateInputs : StartUpdate(customer)
  \/ \E id \in DeleteInputs : StartDelete(id)

\* an awaited call settles or a continuation runs
Steps ==
  \/ \E p \in LoadProcs :
       \/ LoadProbe(p)
       \/ LoadSelfTestInsert(p)
       \/ LoadSelfTestDelete(p)
       \/ LoadCount(p)
       \/ LoadFetch(p)
       \/ LoadInsert(p)
       \/ LoadDrop(p)
       \/ LoadCreate(p)
       \/ LoadVerify(p)
       \/ LoadGetAll(p)
       \/ LoadPublish(p)
       \/ LoadCatch(p)
  \/ RefreshGetAll
  \/ RefreshPublish
  \/ RefreshCatch
  \/ AddInsert
  \/ AddCommit
  \/ AddCatch
  \/ UpdateSql
  \/ UpdateCommit
  \/ UpdateCatch
  \/ DeleteSql
  \/ DeleteCommit
  \/ DeleteCatch

\* the synchronous store actions and the start-up
Others ==
  \/ OpenDatabase
  \/ CreateTables
  \/ \E term \in SearchTerms : SetSearchTerm(term)
  \/ \E role \in UserRoles : SetSelectedRole(role)
  \/ FilterTimer
  \/ ClearError

NoOpInFlight ==
  /\ \A p \in LoadProcs : ld[p].pc = "idle"
  /\ rf.pc = "idle"
  /\ ad.pc = "idle"
  /\ up.pc = "idle"
  /\ de.pc = "idle"

\* operations may overlap
Next == Starts \/ Steps \/ Others

Spec == Init /\ [][Next]_vars

\* operations are invoked one after the other
SeqNext == (NoOpInFlight /\ Starts) \/ Steps \/ Others

SeqSpec == SeqInit /\ [][SeqNext]_vars

\* a mirrored GraphQLService mutation settles; no invocation waits for one unless
\* ENABLE_REMOTE_MUTATIONS is true
RemoteSteps ==
  \/ AddRemote
  \/ UpdateRemote
  \/ DeleteRemote

RemoteNext == SeqNext \/ RemoteSteps

RemoteSpec == RemoteInit /\ [][RemoteNext]_vars

\* ------------------------------------- mutations in flight together (MutSpec)
\* updateCustomer of the loaded record r1, deleteCustomer of the loaded record r2
MutUpdateInputs == {c \in UpdateInputs : c.id = "r1"}

MutDeleteInputs == {"r2"}

\* addCustomer, updateCustomer and deleteCustomer may overlap in any way
MutNext ==
  \/ \E input \in AddInputs : StartAdd(input)
  \/ \E customer \in MutUpdateInputs : StartUpdate(customer)
  \/ \E id \in MutDeleteInputs : StartDelete(id)
  \/ AddInsert
  \/ AddCommit
  \/ AddCatch
  \/ UpdateSql
  \/ UpdateCommit
  \/ UpdateCatch
  \/ DeleteSql
  \/ DeleteCommit
  \/ DeleteCatch

MutSpec == MutInit /\ [][MutNext]_vars

\* ------------------------------------------------ ValidationUtils (the form)
\* 'Name must not exceed 50 characters'
NameLimit == 50

\* the string of n copies of c
RECURSIVE Repeat(_, _)
Repeat(c, n) == IF n = 0 THEN <<>> ELSE <<c>> \o Repeat(c, n - 1)

\* \s
IsSpace(c) == c \in {" ", "\t", "\n"}

\* [a-zA-Z]
IsLetter(c) ==
  c \in {"a", "b", "c", "d", "e", "f", "g", "h", "i", "j", "k", "l", "m", "n", "o", "p", "q",
         "r", "s", "t", "u", "v", "w", "x", "y", "z", "A", "B", "C", "D", "E", "F", "G", "H",
         "I", "J", "K", "L", "M", "N", "O", "P", "Q", "R", "S", "T", "U", "V", "W", "X", "Y",
         "Z"}

\* String.prototype.trim over every white space character
RECURSIVE trimSpace(_)
trimSpace(cs) ==
  IF cs # <<>> /\ IsSpace(Head(cs)) THEN trimSpace(Tail(cs))
  ELSE IF cs # <<>> /\ IsSpace(cs[Len(cs)]) THEN trimSpace(SubSeq(cs, 1, Len(cs) - 1))
  ELSE cs

\* /^[a-zA-Z\s]+$/.test(name)
nameRegex(cs) == cs # <<>> /\ \A k \in 1..Len(cs) : IsLetter(cs[k]) \/ IsSpace(cs[k])

\* /^[^\s@]+@[^\s@]+\.[^\s@]+$/.test(email): one '@', no white space, something
\* before it, and after it a '.' with something on both sides
emailRegex(cs) ==
  \E at \in 1..Len(cs) :
    /\ cs[at] = "@"
    /\ \A k \in 1..Len(cs) : ~IsSpace(cs[k]) /\ (cs[k] = "@" => k = at)
    /\ at > 1
    /\ \E dot \in (at + 2)..(Len(cs) - 1) : cs[dot] = "."

ValidationError(field, message) == [field |-> field, message |-> message]

\* a validator's null (ValidationError | null)
NoValidationError == [field |-> "", message |-> ""]

\* ValidationUtils.validateName
validateName(name) ==
  IF name = <<>> \/ Len(trimSpace(name)) = 0
    THEN ValidationError("name", "Name is required")
  ELSE IF Len(name) > NameLimit
    THEN ValidationError("name", "Name must not exceed 50 characters")
  ELSE IF ~nameRegex(name)
    THEN ValidationError("name", "Name can only contain alphabets and spaces")
  ELSE NoValidationError

\* ValidationUtils.validateEmail
validateEmail(email) ==
  IF email = <<>> \/ Len(trimSpace(email)) = 0
    THEN ValidationError("email", "Email is required")
  ELSE IF ~emailRegex(email)
    THEN ValidationError("email", "Please enter a valid email address")
  ELSE NoValidationError

\* ValidationUtils.validateRole
validateRole(role) ==
  IF role = <<>> \/ (role # Chars("Admin") /\ role # Chars("Manager"))
    THEN ValidationError("role", "Please select a valid role (Admin or Manager)")
  ELSE NoValidationError

\* if (e) errors.push(e)
Push(errors, e) == IF e # NoValidationError THEN Append(errors, e) ELSE errors

\* variant: validation stops at the first field that is rejected
validateFormFirstOnly(formData) ==
  IF validateName(formData.name) # NoValidationError THEN <<validateName(formData.name)>>
  ELSE IF validateEmail(formData.email) # NoValidationError THEN <<validateEmail(formData.email)>>
  ELSE Push(<<>>, validateRole(formData.role))

\* ValidationUtils.validateForm
validateForm(formData) ==
  Push(Push(Push(<<>>, validateName(formData.name)), validateEmail(formData.email)),
       validateRole(formData.role))

\* values of the name field
FormNames ==
  { <<>>, <<" ">>, <<"A", "n", "n">>, <<"J", "o", "h", "n", " ", "D", "o", "e">>,
    <<"A", "1">>, <<"\t", "A">>, Repeat("a", NameLimit), Repeat("a", NameLimit + 1) }

\* values of the email field
FormEmails ==
  { <<>>, <<" ">>, <<"a", "@", "b", ".", "c">>, <<"a", "@", "b", ".", "c", ".", "d">>,
    <<"i", "n", "v", "a", "l", "i", "d", "-", "e", "m", "a", "i", "l">>,
    <<"a", "@", "b">>, <<"a", "@", ".", "c">>, <<"a", "@", "b", ".">>, <<"@", "b", ".", "c">>,
    <<"a", " ", "@", "b", ".", "c">>, <<"a", "@", "b", "@", "c", ".", "d">> }

\* values of the role field
FormRoles == { <<>>, Chars("Admin"), Chars("Manager"), Chars("admin"), Chars("guest") }

FormInit ==
  /\ Init0
  /\ norm = NormIdle
  /\ \E name \in FormNames, email \in FormEmails, role \in FormRoles :
       form = [FormIdle EXCEPT !.data = [name |-> name, email |-> email, role |-> role]]
  /\ opsLeft = 0
  /\ faultsLeft = 0
  /\ remoteMutations = ENABLE_REMOTE_MUTATIONS

\* ValidationUtils.validateForm(formData)
ValidateForm ==
  /\ ~form.done
  /\ form' = [form EXCEPT !.done = TRUE, !.errors = validateForm(form.data)]
  /\ UNCHANGED <<storeVars, dbVars, app, ld, rf, ad, up, de, timers, nextId, addedDuring,
                 opsLeft, faultsLeft, remoteMutations, norm, call>>

FormNext == ValidateForm

FormSpec == FormInit /\ [][FormNext]_vars

\* ------------------------------------------- DatabaseService called directly
\* One caller awaits each call before it makes the next.  call keeps the last
\* call: its name, arguments, the table as it was when the call was made
\* (before), and how it settled (result, rows, count).
DbInit ==
  /\ Init0
  /\ norm = NormIdle
  /\ form = FormIdle
  /\ opsLeft = DbMaxOps
  /\ faultsLeft = DbMaxFaults
  /\ remoteMutations = ENABLE_REMOTE_MUTATIONS

\* throw new Error('Database not initialized')
NotInitialized == "Database not initialized"

\* a rejection of executeSql / close by the medium
SqlError == "SQL error"

\* the caller is between calls (initDatabase included)
CanCall == call.pc = "idle" /\ opsLeft > 0 /\ app # "create"

\* the call has settled with res
Returned(op, args, res) ==
  [CallIdle EXCEPT !.op = op, !.args = args, !.before = table, !.result = res]

\* if (!this.database) throw new Error('Database not initialized')
CallThrowsNotInitialized(op, args) ==
  /\ database # "open"
  /\ call' = Returned(op, args, NotInitialized)
  /\ UNCHANGED <<dbVars, faultsLeft>>

\* what a direct call leaves alone
CallFrame ==
  /\ opsLeft' = opsLeft - 1
  /\ UNCHANGED <<storeVars, app, ld, rf, ad, up, de, timers, nextId, addedDuring>>
  /\ UNCHANGED <<remoteMutations, norm, form>>

\* initDatabase called again
CallInitDatabase ==
  /\ call.pc = "idle"
  /\ opsLeft > 0
  /\ app \in {"ready", "failed"}
  /\ app' = "open"
  /\ opsLeft' = opsLeft - 1
  /\ call' = Returned("initDatabase", <<>>, "none")
  /\ UNCHANGED <<storeVars, dbVars, ld, rf, ad, up, de, timers, nextId, addedDuring, faultsLeft>>
  /\ UNCHANGED <<remoteMutations, norm, form>>

\* DatabaseService.insertCustomer
CallInsertCustomer(customer) ==
  /\ CanCall
  /\ \/ CallThrowsNotInitialized("insertCustomer", <<customer>>)
     \/ /\ database = "open"
        /\ InsertAccepts(dbRow(customer))
        /\ table' = SqlInsertOrReplace(table, dbRow(customer))
        /\ call' = Returned("insertCustomer", <<customer>>, "ok")
        /\ UNCHANGED <<database, tableExists, roleCheck>>
     \/ /\ database = "open"
        /\ InsertRejects(dbRow(customer))
        /\ call' = Returned("insertCustomer", <<customer>>, SqlError)
        /\ UNCHANGED dbVars
  /\ CallFrame

\* DatabaseService.insertCustomers: the guards, before the loop
CallInsertCustomers(list) ==
  /\ CanCall
  /\ \/ CallThrowsNotInitialized("insertCustomers", list)
     \/ /\ database = "open"
        /\ list = <<>>
        /\ call' = Returned("insertCustomers", list, "ok")
        /\ UNCHANGED <<dbVars, faultsLeft>>
     \/ /\ database = "open"
        /\ list # <<>>
        /\ call' = [Returned("insertCustomers", list, "none") EXCEPT !.pc = "insert", !.i = 1]
        /\ UNCHANGED <<dbVars, faultsLeft>>
  /\ CallFrame

\* variant: the loop runs in a transaction that is rolled back when a write fails
TableAfterFailedInsertRolledBack(tbl, before) == before

\* a write of the loop fails: what the writes before it did stays
TableAfterFailedInsert(tbl, before) == tbl

\* DatabaseService.insertCustomers: await this.insertCustomer(customers[i])
CallInsertNext ==
  /\ call.pc = "insert"
  /\ LET row == dbRow(call.args[call.i])
     IN  \/ /\ InsertAccepts(row)
            /\ table' = SqlInsertOrReplace(table, row)
            /\ call' = [call EXCEPT !.i = @ + 1,
                                    !.pc = IF call.i = Len(call.args) THEN "idle" ELSE @,
                                    !.result = IF call.i = Len(call.args) THEN "ok" ELSE @]
         \/ /\ InsertRejects(row)
            /\ table' = TableAfterFailedInsert(table, call.before)
            /\ call' = [call EXCEPT !.pc = "idle", !.result = SqlError]
  /\ UNCHANGED <<storeVars, database, tableExists, roleCheck, app, ld, rf, ad, up, de, timers,
                 nextId, addedDuring, opsLeft>>
  /\ UNCHANGED <<remoteMutations, norm, form>>

\* DatabaseService.updateCustomer
CallUpdateCustomer(customer) ==
  /\ CanCall
  /\ \/ CallThrowsNotInitialized("updateCustomer", <<customer>>)
     \/ /\ database = "open"
        /\ Accepts
        /\ table' = SqlUpdate(table, dbRow(customer))
        /\ call' = Returned("updateCustomer", <<customer>>, "ok")
        /\ UNCHANGED <<database, tableExists, roleCheck>>
     \/ /\ database = "open"
        /\ Rejects
        /\ call' = Returned("updateCustomer", <<customer>>, SqlError)
        /\ UNCHANGED dbVars
  /\ CallFrame

\* DatabaseService.deleteCustomer
CallDeleteCustomer(id) ==
  /\ CanCall
  /\ \/ CallThrowsNotInitialized("deleteCustomer", <<Cust(id, "", "", "")>>)
     \/ /\ database = "open"
        /\ Accepts
        /\ table' = SqlDelete(table, id)
        /\ call' = Returned("deleteCustomer", <<Cust(id, "", "", "")>>, "ok")
        /\ UNCHANGED <<database, tableExists, roleCheck>>
     \/ /\ database = "open"
        /\ Rejects
        /\ call' = Returned("deleteCustomer", <<Cust(id, "", "", "")>>, SqlError)
        /\ UNCHANGED dbVars
  /\ CallFrame

\* DatabaseService.getAllCustomers
CallGetAllCustomers ==
  /\ CanCall
  /\ \/ CallThrowsNotInitialized("getAllCustomers", <<>>)
     \/ /\ database = "open"
        /\ Accepts
        /\ call' = [Returned("getAllCustomers", <<>>, "ok") EXCEPT !.rows = getAllCustomers(table)]
        /\ UNCHANGED dbVars
     \/ /\ database = "open"
        /\ Rejects
        /\ call' = Returned("getAllCustomers", <<>>, SqlError)
        /\ UNCHANGED dbVars
  /\ CallFrame

\* DatabaseService.getCustomerCount
CallGetCustomerCount ==
  /\ CanCall
  /\ \/ CallThrowsNotInitialized("getCustomerCount", <<>>)
     \/ /\ database = "open"
        /\ Accepts
        /\ call' = [Returned("getCustomerCount", <<>>, "ok") EXCEPT !.count = Len(table)]
        /\ UNCHANGED dbVars
     \/ /\ database = "open"
        /\ Rejects
        /\ call' = Returned("getCustomerCount", <<>>, SqlError)
        /\ UNCHANGED dbVars
  /\ CallFrame

\* variant: the probe throws without a handle, as the data operations do
ProbeWithoutHandleThrows == NotInitialized

\* testDatabaseConnection: if (!this.database) return false
ProbeWithoutHandle == "false"

\* DatabaseService.testDatabaseConnection: the sqlite_master query finds the
\* table or not; a rejection is caught and gives false
CallTestDatabaseConnection ==
  /\ CanCall
  /\ \/ /\ database # "open"
        /\ call' = Returned("testDatabaseConnection", <<>>, ProbeWithoutHandle)
        /\ faultsLeft' = faultsLeft
     \/ /\ database = "open"
        /\ faultsLeft' = faultsLeft
        /\ call' = Returned("testDatabaseConnection", <<>>,
                            IF tableExists THEN "true" ELSE "false")
     \/ /\ database = "open"
        /\ faultsLeft > 0
        /\ faultsLeft' = faultsLeft - 1
        /\ call' = Returned("testDatabaseConnection", <<>>, "false")
  /\ UNCHANGED dbVars
  /\ CallFrame

\* DatabaseService.recreateTableWithoutConstraint: the guard
CallRecreateTable ==
  /\ CanCall
  /\ \/ CallThrowsNotInitialized("recreateTableWithoutConstraint", <<>>)
     \/ /\ database = "open"
        /\ call' = [Returned("recreateTableWithoutConstraint", <<>>, "none")
                      EXCEPT !.pc = "drop"]
        /\ UNCHANGED <<dbVars, faultsLeft>>
  /\ CallFrame

\* variant: the rows are copied into the new table
RowsAfterDropKept(tbl) == tbl

\* DROP TABLE discards every row
RowsAfterDrop(tbl) == <<>>

\* recreateTableWithoutConstraint: DROP TABLE IF EXISTS customers
CallDrop ==
  /\ call.pc = "drop"
  /\ \/ /\ faultsLeft' = faultsLeft
        /\ tableExists' = FALSE
        /\ roleCheck' = FALSE
        /\ table' = RowsAfterDrop(table)
        /\ call' = [call EXCEPT !.pc = "create"]
     \/ /\ faultsLeft > 0
        /\ faultsLeft' = faultsLeft - 1
        /\ UNCHANGED <<tableExists, roleCheck, table>>
        /\ call' = [call EXCEPT !.pc = "idle", !.result = SqlError]
  /\ UNCHANGED <<storeVars, database, app, ld, rf, ad, up, de, timers, nextId, addedDuring,
                 opsLeft>>
  /\ UNCHANGED <<remoteMutations, norm, form>>

\* recreateTableWithoutConstraint: CREATE TABLE customers (...) without the CHECK
CallCreate ==
  /\ call.pc = "create"
  /\ \/ /\ ~tableExists
        /\ faultsLeft' = faultsLeft
        /\ tableExists' = TRUE
        /\ roleCheck' = FALSE
        /\ call' = [call EXCEPT !.pc = "idle", !.result = "ok"]
     \/ /\ IF ~tableExists THEN faultsLeft > 0 /\ faultsLeft' = faultsLeft - 1
           ELSE faultsLeft' = faultsLeft
        /\ UNCHANGED <<tableExists, roleCheck>>
        /\ call' = [call EXCEPT !.pc = "idle", !.result = SqlError]
  /\ UNCHANGED <<storeVars, database, table, app, ld, rf, ad, up, de, timers, nextId,
                 addedDuring, opsLeft>>
  /\ UNCHANGED <<remoteMutations, norm, form>>

\* variant: close() is called whether or not there is a handle
CloseWithoutHandleThrows == SqlError

\* closeDatabase: if (this.database) { ... } else nothing
CloseWithoutHandle == "ok"

\* DatabaseService.closeDatabase
CallCloseDatabase ==
  /\ CanCall
  /\ \/ /\ database # "open"
        /\ call' = Returned("closeDatabase", <<>>, CloseWithoutHandle)
        /\ UNCHANGED <<database, faultsLeft>>
     \/ /\ database = "open"
        /\ faultsLeft' = faultsLeft
        /\ database' = "null"
        /\ call' = Returned("closeDatabase", <<>>, "ok")
     \/ /\ database = "open"
        /\ faultsLeft > 0
        /\ faultsLeft' = faultsLeft - 1
        /\ database' = database
        /\ call' = Returned("closeDatabase", <<>>, SqlError)
  /\ UNCHANGED <<tableExists, roleCheck, table>>
  /\ CallFrame

\* initDatabase is awaited like every other call
DbNext ==
  \/ call.pc = "idle" /\ OpenDatabase
  \/ call.pc = "idle" /\ CreateTables
  \/ CallInitDatabase
  \/ \E customer \in DbRecords : CallInsertCustomer(customer)
  \/ \E list \in DbLists : CallInsertCustomers(list)
  \/ CallInsertNext
  \/ \E customer \in DbRecords : CallUpdateCustomer(customer)
  \/ \E id \in DbIds : CallDeleteCustomer(id)
  \/ CallGetAllCustomers
  \/ CallGetCustomerCount
  \/ CallTestDatabaseConnection
  \/ CallRecreateTable
  \/ CallDrop
  \/ CallCreate
  \/ CallCloseDatabase

DbSpec == DbInit /\ [][DbNext]_vars

\* ---------------------------------------------------- normalizeRole applied
NormInit ==
  /\ Init0
  /\ \E cs \in RoleInputs : norm = [NormIdle EXCEPT !.input = cs]
  /\ form = FormIdle
  /\ opsLeft = 0
  /\ faultsLeft = 0
  /\ remoteMutations = ENABLE_REMOTE_MUTATIONS

\* normalizeRole(role)
NormalizeRole ==
  /\ norm.output = "none"
  /\ norm' = [norm EXCEPT !.output = normalizeRoleChars(norm.input)]
  /\ UNCHANGED <<storeVars, dbVars, app, ld, rf, ad, up, de, timers, nextId, addedDuring,
                 opsLeft, faultsLeft, remoteMutations, call, form>>

\* normalizeRole applied to what it returned
NormalizeAgain ==
  /\ norm.output # "none"
  /\ norm.again = "none"
  /\ norm' = [norm EXCEPT !.again = normalizeRole(norm.output)]
  /\ UNCHANGED <<storeVars, dbVars, app, ld, rf, ad, up, de, timers, nextId, addedDuring,
                 opsLeft, faultsLeft, remoteMutations, call, form>>

\* the adapter's normalizeRole(role) on the same argument
DbNormalizeRole ==
  /\ norm.db = "none"
  /\ norm' = [norm EXCEPT !.db = dbNormalizeRoleChars(norm.input)]
  /\ UNCHANGED <<storeVars, dbVars, app, ld, rf, ad, up, de, timers, nextId, addedDuring,
                 opsLeft, faultsLeft, remoteMutations, call, form>>

\* a role the store normalized is written: the adapter normalizes it again
DbNormalizeWritten ==
  /\ norm.output # "none"
  /\ norm.written = "none"
  /\ norm' = [norm EXCEPT !.written = dbNormalizeRole(norm.output)]
  /\ UNCHANGED <<storeVars, dbVars, app, ld, rf, ad, up, de, timers, nextId, addedDuring,
                 opsLeft, faultsLeft, remoteMutations, call, form>>

\* a role the adapter stored is read and published: getAllCustomers passes the
\* row's role through the adapter's normalizeRole, normalizeCustomers through
\* the store's
NormalizeRead ==
  /\ norm.db # "none"
  /\ norm.read = "none"
  /\ norm' = [norm EXCEPT !.read = normalizeRole(dbNormalizeRole(norm.db))]
  /\ UNCHANGED <<storeVars, dbVars, app, ld, rf, ad, up, de, timers, nextId, addedDuring,
                 opsLeft, faultsLeft, remoteMutations, call, form>>

NormNext ==
  \/ NormalizeRole
  \/ NormalizeAgain
  \/ DbNormalizeRole
  \/ DbNormalizeWritten
  \/ NormalizeRead

NormSpec == NormInit /\ [][NormNext]_vars


\* ------------------------------------------------------------------ claims
Rows(s) == {s[k] : k \in 1..Len(s)}

Ids(s) == {s[k].id : k \in 1..Len(s)}

\* cs holds exactly the rows of tbl, roles normalized
SameRecords(cs, tbl) ==
  /\ Len(cs) = Len(tbl)
  /\ Rows(cs) = {normalizeCustomer(r) : r \in Rows(tbl)}

\* the step ends invocation p of loadCustomers
Completes(p) == InFlight(ld[p]) /\ ~InFlight(ld'[p])

RefreshCompletes == InFlight(rf) /\ ~InFlight(rf')

\* C1: when addCustomer has appended a record while a loadCustomers invocation
\* was in flight, the record is still in customers after that invocation
\* publishes (unless a deleteCustomer removed it meanwhile).
C1_AddSurvivesSlowLoad ==
  [][\A p \in LoadProcs : LoadPublish(p) => addedDuring[p] \subseteq Ids(customers')]_vars

C3_SeedPublishesRemoteItems ==
  [][\A p \in LoadProcs :
       (LoadPublish(p) /\ ld[p].count = 0 /\ ld[p].seed = "ok") =>
         /\ ld[p].items # <<>>
         /\ Len(table') = Len(ld[p].items)
         /\ Rows(table') = {normalizeCustomer(c) : c \in Rows(ld[p].items)}
         /\ Len(customers') = Len(ld[p].items)
         /\ Rows(customers') = {normalizeCustomer(c) : c \in Rows(ld[p].items)}
         /\ error' = null
         /\ loading' = FALSE]_vars

C3_Witness ==
  \E p \in LoadProcs :
    /\ ld[p].pc = "idle" /\ ld[p].result = "ok" /\ ld[p].count = 0 /\ ld[p].seed = "ok"
    /\ Len(customers) = 2 /\ Ids(table) = {"r1", "r2"}

C5_ReadFailureSurfaces ==
  [][\A p \in LoadProcs :
       (Completes(p) /\ ld[p].failed \cap {"count", "verify", "getAll"} # {}) =>
         /\ error' = LoadMsg
         /\ loading' = FALSE
         /\ UNCHANGED <<customers, filteredCustomers>>]_vars

\* C6: an invocation whose probe returned false or whose self-test failed, and
\* in which nothing else failed, is not taken to the catch handler and does
\* not end in error.
C6_DiagnosticsNonFatal ==
  \A p \in LoadProcs :
    (ld[p].diag \in {"probeFalse", "selfTestFailed"} /\ ld[p].failed \subseteq {"selfTest"}) =>
      ld[p].pc # "catch" /\ ld[p].result # "error"

\* C7: loading is true exactly while some invocation of loadCustomers is in
\* flight.
C7_LoadingFlag == loading = (\E p \in LoadProcs : InFlight(ld[p]))

\* C8: an operation during which a DatabaseService call was rejected ends with
\* error set to its message.
C8_AdapterFailureSetsError ==
  [][/\ \A p \in LoadProcs :
          (Completes(p) /\ ld[p].failed \ {"fetch"} # {}) => error' = LoadMsg
     /\ (RefreshCompletes /\ rf.failed) => error' = RefreshMsg
     /\ (ad.pc = "catch" /\ ad'.pc = "idle") => error' = AddMsg
     /\ (up.pc = "catch" /\ up'.pc = "idle") => error' = UpdateMsg
     /\ (de.pc = "catch" /\ de'.pc = "idle") => error' = DeleteMsg]_vars

C10_RefreshFailure ==
  [][/\ (RefreshCompletes /\ rf.failed) =>
          /\ error' = RefreshMsg
          /\ rf'.result = "error"
          /\ UNCHANGED <<customers, filteredCustomers>>
     /\ (rf' # rf /\ rf.failed) => UNCHANGED <<customers, filteredCustomers>>
     /\ (rf' # rf /\ rf'.failed) => UNCHANGED <<customers, filteredCustomers>>
     /\ refreshing' = InFlight(rf')]_vars

C10_Witness ==
  /\ rf.pc = "idle" /\ rf.failed /\ rf.result = "error"
  /\ error = RefreshMsg /\ ~refreshing /\ customers # <<>>

\* C11: a successful addCustomer appends exactly one record at the end of
\* customers, with the input's name and email and the normalized role, leaving
\* the earlier records in place, and the table holds the same record; the id
\* the invocation generated is in neither customers nor the table when it is
\* generated.
C11_AddAppendsFreshRecord ==
  [][/\ (ad.pc = "idle" /\ ad'.pc # "idle") =>
          ad'.arg.id \notin Ids(customers) \cup Ids(table)
     /\ AddCommit =>
          /\ Len(customers') = Len(customers) + 1
          /\ SubSeq(customers', 1, Len(customers)) = customers
          /\ customers'[Len(customers')] =
               Cust(ad.arg.id, ad.arg.name, ad.arg.email, normalizeRole(ad.arg.role))
          /\ customers'[Len(customers')] \in Rows(table')]_vars

\* C12: when insertCustomer settles during addCustomer without the row being in
\* the table, the invocation goes to its catch handler, which sets error to
\* 'Failed to add customer' and rethrows; no step of the failing invocation
\* changes customers, filteredCustomers or the table.
C12_AddFailure ==
  [][/\ (ad.pc = "insert" /\ ad' # ad /\ dbRow(ad.arg) \notin Rows(table')) =>
          ad'.pc = "catch"
     /\ (ad.pc = "insert" /\ ad'.pc = "catch") =>
          UNCHANGED <<customers, filteredCustomers, table>>
     /\ (ad.pc = "catch" /\ ad' # ad) =>
          /\ error' = AddMsg
          /\ ad'.pc = "idle" /\ ad'.result = "threw"
          /\ UNCHANGED <<customers, filteredCustomers, table>>
     /\ (ad.pc # "catch" /\ ad'.pc = "catch") => ad.pc = "insert"]_vars

C12_Witness ==
  /\ ad.pc = "idle" /\ ad.result = "threw"
  /\ error = AddMsg
  /\ customers # <<>> /\ ad.arg.id \notin Ids(customers)

\* the call that settles in this step is rejected: by the medium, or because
\* the handle or the table is missing
SqlRejected == faultsLeft' < faultsLeft \/ ~SqlReady

\* C13: when dbService.updateCustomer or dbService.deleteCustomer is rejected,
\* the invocation goes to its catch handler, which sets error to the action's
\* message and rethrows; no step of the failing invocation changes customers,
\* filteredCustomers or the table.
C13_UpdateDeleteFailure ==
  [][/\ (up.pc = "update" /\ up' # up /\ SqlRejected) =>
          /\ up'.pc = "catch"
          /\ UNCHANGED <<customers, filteredCustomers, table>>
     /\ (up.pc = "catch" /\ up' # up) =>
          /\ error' = UpdateMsg
          /\ up'.pc = "idle" /\ up'.result = "threw"
          /\ UNCHANGED <<customers, filteredCustomers, table>>
     /\ (de.pc = "delete" /\ de' # de /\ SqlRejected) =>
          /\ de'.pc = "catch"
          /\ UNCHANGED <<customers, filteredCustomers, table>>
     /\ (de.pc = "catch" /\ de' # de) =>
          /\ error' = DeleteMsg
          /\ de'.pc = "idle" /\ de'.result = "threw"
          /\ UNCHANGED <<customers, filteredCustomers, table>>]_vars

\* both failures have happened, on a record that customers still holds
C13_Witness ==
  /\ up.pc = "idle" /\ up.result = "threw"
  /\ de.pc = "idle" /\ de.result = "threw"
  /\ error \in {UpdateMsg, DeleteMsg}
  /\ \E k \in 1..Len(customers) :
       customers[k].id = de.arg /\ customers[k].id = up.arg.id /\ customers[k].name # up.arg.name

\* C14: in the build as it is (ENABLE_REMOTE_MUTATIONS false), no invocation of
\* addCustomer, updateCustomer or deleteCustomer waits for, or has made, a
\* GraphQLService mutation call.
C14_LocalOnlyMutations ==
  /\ ad.pc # "remote" /\ ad.remote = "none"
  /\ up.pc # "remote" /\ up.remote = "none"
  /\ de.pc # "remote" /\ de.remote = "none"

\* the three mutations have each completed
C14_Witness ==
  /\ ~remoteMutations
  /\ ad.pc = "idle" /\ ad.result = "ok"
  /\ up.pc = "idle" /\ up.result = "ok"
  /\ de.pc = "idle" /\ de.result = "ok"

\* the mirrored call that settles in this step is rejected
RemoteRejected == faultsLeft' < faultsLeft

\* C15: with ENABLE_REMOTE_MUTATIONS true, a rejected remote create, update or
\* delete changes no store state and is followed by the local write (for
\* addCustomer, of the locally generated record); when that write succeeds the
\* invocation patches customers, leaves error as it is and resolves.
C15_RemoteFailureNeverBlocks ==
  [][/\ (ad.pc = "remote" /\ ad' # ad /\ RemoteRejected) =>
          /\ ad'.pc = "insert"
          /\ ad'.arg.id \in {LocalId(n) : n \in 1..(nextId + 1)}
          /\ ad'.arg = [ad.arg EXCEPT !.id = ad'.arg.id]
          /\ UNCHANGED <<storeVars, dbVars>>
     /\ (up.pc = "remote" /\ up' # up /\ RemoteRejected) =>
          /\ up'.pc = "update" /\ up'.arg = up.arg
          /\ UNCHANGED <<storeVars, dbVars>>
     /\ (de.pc = "remote" /\ de' # de /\ RemoteRejected) =>
          /\ de'.pc = "delete" /\ de'.arg = de.arg
          /\ UNCHANGED <<storeVars, dbVars>>
     /\ (AddCommit /\ ad.remote = "failed") =>
          /\ customers' = Append(customers, normalizeCustomer(ad.arg))
          /\ normalizeCustomer(ad.arg) \in Rows(table)
          /\ error' = error /\ ad'.result = "ok"
     /\ (UpdateCommit /\ up.remote = "failed") =>
          /\ Ids(customers') = Ids(customers)
          /\ \A k \in 1..Len(customers) :
               customers[k].id = up.arg.id => customers'[k] = normalizeCustomer(up.arg)
          /\ error' = error /\ up'.result = "ok"
     /\ (DeleteCommit /\ de.remote = "failed") =>
          /\ de.arg \notin Ids(customers') \cup Ids(table)
          /\ error' = error /\ de'.result = "ok"]_vars

\* an addCustomer whose remote create was rejected has resolved with the local
\* record appended
C15_Witness ==
  /\ remoteMutations
  /\ ad.pc = "idle" /\ ad.remote = "failed" /\ ad.result = "ok"
  /\ ad.arg.id = LocalId(1)
  /\ customers # <<>> /\ customers[Len(customers)] = normalizeCustomer(ad.arg)
  /\ error = null

\* C16: a dbService.updateCustomer that is not rejected succeeds whether or not
\* the table has a row with the id; the invocation then keeps the length and
\* the ids of customers in place, replaces every entry whose id is the
\* record's by the record with its role normalized, leaves the other entries
\* as they are, and resolves; with the id absent customers is unchanged.
C16_UpdateReplacesById ==
  [][/\ (up.pc = "update" /\ up' # up /\ ~SqlRejected) =>
          /\ up'.pc = "commit"
          /\ Len(table') = Len(table)
          /\ \A k \in 1..Len(table) :
               table'[k] = IF table[k].id = up.arg.id THEN normalizeCustomer(up.arg)
                           ELSE table[k]
     /\ UpdateCommit =>
          /\ Len(customers') = Len(customers)
          /\ \A k \in 1..Len(customers) :
               /\ customers'[k].id = customers[k].id
               /\ customers[k].id = up.arg.id =>
                    customers'[k] = Cust(up.arg.id, up.arg.name, up.arg.email,
                                         normalizeRole(up.arg.role))
               /\ customers[k].id # up.arg.id => customers'[k] = customers[k]
          /\ up.arg.id \notin Ids(customers) => customers' = customers
          /\ up'.pc = "idle" /\ up'.result = "ok"
          /\ error' = error]_vars

\* an update has replaced one of two records, and an update of an absent id
\* is told apart by the id
C16_Witness ==
  /\ up.pc = "idle" /\ up.result = "ok"
  /\ Len(customers) = 2
  /\ \E k \in 1..2 : customers[k] = normalizeCustomer(up.arg) /\ customers[3 - k].id # up.arg.id

\* an update of an id that neither customers nor the table holds has resolved
C16_WitnessAbsent ==
  /\ up.pc = "idle" /\ up.result = "ok"
  /\ customers # <<>>
  /\ up.arg.id \notin Ids(customers) \cup Ids(table)

\* cs is what is left of old, in the same order, once the entries with the id
\* are taken out
WithoutId(cs, old, id) ==
  /\ id \notin Ids(cs)
  /\ \E f \in [1..Len(cs) -> 1..Len(old)] :
       /\ \A k \in 1..Len(cs) : cs[k] = old[f[k]]
       /\ \A j, k \in 1..Len(cs) : j < k => f[j] < f[k]
       /\ \A m \in 1..Len(old) : old[m].id # id => \E k \in 1..Len(cs) : f[k] = m

\* C17: a dbService.deleteCustomer that is not rejected succeeds whether or not
\* the table has a row with the id, and leaves the table without that row;
\* the invocation then takes every entry with the id out of customers, keeps
\* the others in order, sets filteredCustomers to the filter of the new list
\* and resolves; with the id absent nothing changes.
C17_DeleteRemovesById ==
  [][/\ (de.pc = "delete" /\ de' # de /\ ~SqlRejected) =>
          /\ de'.pc = "commit"
          /\ WithoutId(table', table, de.arg)
          /\ de.arg \notin Ids(table) => table' = table
     /\ DeleteCommit =>
          /\ WithoutId(customers', customers, de.arg)
          /\ de.arg \notin Ids(customers) => customers' = customers
          /\ filteredCustomers' = Filter(customers', selectedRole', searchTerm')
          /\ de'.pc = "idle" /\ de'.result = "ok"
          /\ error' = error]_vars

\* a delete has removed one of two records, from customers and from the table
C17_Witness ==
  /\ de.pc = "idle" /\ de.result = "ok" /\ de.arg = "r1"
  /\ Ids(customers) = {"r2"} /\ Ids(table) = {"r2"}
  /\ \E p \in LoadProcs : ld[p].seed = "ok" /\ ld[p].result = "ok"

\* out holds, in the order of cs, exactly the entries of cs that Keep accepts
IsSubsequenceWhere(out, cs, Keep(_)) ==
  LET kept == {k \in 1..Len(cs) : Keep(cs[k])}
  IN  /\ Len(out) = Cardinality(kept)
      /\ \A n \in 1..Len(out) :
           \E k \in kept : Cardinality({j \in kept : j <= k}) = n /\ out[n] = cs[k]

\* the record passes the role selector and the search term
Selected(c, role, term) ==
  LET needle == toLowerCase(trim(Chars(term)))
  IN  /\ role = "All" \/ c.role = role
      /\ needle = <<>> \/ includes(toLowerCase(Chars(c.name)), needle)

\* C18: whenever filterCustomers has run, filteredCustomers holds, in the order
\* of customers, exactly the records whose role is selectedRole (any role
\* when it is 'All') and whose name contains the trimmed search term, case
\* ignored (any name when the trimmed term is empty); with 'All' and an empty
\* or blank term it equals customers.
C18_FilterIsProjection ==
  [][(FilterTimer \/ filteredCustomers' # filteredCustomers) =>
       /\ IsSubsequenceWhere(filteredCustomers', customers',
                             LAMBDA c : Selected(c, selectedRole', searchTerm'))
       /\ (selectedRole' = "All" /\ searchTerm' \in {"", " "}) =>
            filteredCustomers' = customers']_vars

\* the term 'B ' has kept Bob out of two records
C18_Witness ==
  /\ timers = 0 /\ searchTerm = "B "
  /\ Len(customers) = 2 /\ Len(filteredCustomers) = 1
  /\ filteredCustomers[1].name = "Bob"

\* filteredCustomers is what filterCustomers yields for the current customers,
\* selectedRole and searchTerm
FilterUpToDate ==
  IsSubsequenceWhere(filteredCustomers, customers,
                     LAMBDA c : Selected(c, selectedRole, searchTerm))

\* C19: a run of filterCustomers changes nothing but filteredCustomers, and its
\* result is determined by customers, selectedRole and searchTerm; run again
\* on a state whose filteredCustomers came from a run on the same inputs, it
\* leaves filteredCustomers as it is.
C19_FilterIdempotent ==
  [][FilterTimer =>
       /\ UNCHANGED <<customers, selectedRole, searchTerm, loading, refreshing, error>>
       /\ FilterUpToDate'
       /\ FilterUpToDate => filteredCustomers' = filteredCustomers]_vars

\* filterCustomers has run since the inputs last changed, kept some records
\* out, and another run is pending
C19_Witness ==
  /\ timers > 0
  /\ FilterUpToDate
  /\ customers # <<>> /\ filteredCustomers # customers

\* C20: setSearchTerm and setSelectedRole store the new value at once, schedule
\* one run of filterCustomers and leave filteredCustomers to that run; in
\* every state with no scheduled run pending, filteredCustomers is the
\* projection of the current customers under the current selectedRole and
\* searchTerm.
C20_DeferredFilterConverges ==
  /\ [](timers = 0 => FilterUpToDate)
  /\ [][/\ \A term \in SearchTerms :
             SetSearchTerm(term) =>
               (/\ searchTerm' = term
                /\ timers' = timers + 1
                /\ UNCHANGED <<filteredCustomers, customers, selectedRole>>)
        /\ \A role \in UserRoles :
             SetSelectedRole(role) =>
               (/\ selectedRole' = role
                /\ timers' = timers + 1
                /\ UNCHANGED <<filteredCustomers, customers, searchTerm>>)
        /\ (searchTerm' # searchTerm \/ selectedRole' # selectedRole) =>
             (timers' = timers + 1)
        /\ (timers' < timers) => FilterUpToDate']_vars

\* both filters were changed, every scheduled run is done, and the projection
\* has kept one of two records
C20_Witness ==
  /\ timers = 0
  /\ searchTerm = "B " /\ selectedRole = "Admin"
  /\ Len(customers) = 2
  /\ Len(filteredCustomers) = 1 /\ filteredCustomers[1].name = "Bob"

\* out is cs with some entries left out, the others in their order
IsSubsequence(out, cs) ==
  \E f \in [1..Len(out) -> 1..Len(cs)] :
    /\ \A k \in 1..Len(out) : out[k] = cs[f[k]]
    /\ \A j, k \in 1..Len(out) : j < k => f[j] < f[k]

\* C21: every step that changes filteredCustomers sets it to what
\* filterCustomers computes from the new customers, selectedRole and
\* searchTerm; in every state with no scheduled run pending,
\* filteredCustomers is that value for the current state and is customers
\* with some entries left out.
C21_ProjectedOnlyRecomputed ==
  /\ [](timers = 0 =>
          /\ filteredCustomers = Filter(customers, selectedRole, searchTerm)
          /\ IsSubsequence(filteredCustomers, customers))
  /\ [][filteredCustomers' # filteredCustomers =>
          filteredCustomers' = Filter(customers', selectedRole', searchTerm')]_vars

\* the selector 'Manager' has kept amy out of the two seeded records
C21_Witness ==
  /\ timers = 0
  /\ selectedRole = "Manager" /\ searchTerm = ""
  /\ Ids(customers) = {"r1", "r2"}
  /\ Len(filteredCustomers) = 1 /\ filteredCustomers[1].id = "r2"

\* C22: customers never holds two entries with the same id.
C22_UniqueIds ==
  \A j, k \in 1..Len(customers) : customers[j].id = customers[k].id => j = k

\* C23: every entry of customers and every row of the table has the role
\* 'Admin' or 'Manager', with or without the CHECK constraint on the table.
C23_CanonicalRoles ==
  /\ \A k \in 1..Len(customers) : customers[k].role \in {"Admin", "Manager"}
  /\ \A k \in 1..Len(table) : table[k].role \in {"Admin", "Manager"}

\* the table was recreated without the constraint, seeded with the two remote
\* items ('manager', 'ADMINISTRATOR'), and a record added with role ' admin '
C23_Witness ==
  /\ tableExists /\ ~roleCheck
  /\ Ids(table) = {"r1", "r2", "n1"}
  /\ Ids(customers) = {"r1", "r2", "n1"}

\* 'admin' occurs in the trimmed, lowercased string, position by position
ContainsAdmin(cs) ==
  LET s == toLowerCase(trim(cs))
  IN  \E k \in 1..(Len(s) - 4) :
        /\ s[k] = "a" /\ s[k + 1] = "d" /\ s[k + 2] = "m" /\ s[k + 3] = "i" /\ s[k + 4] = "n"

\* C24: normalizeRole returns for every string; it returns 'Admin' exactly when
\* the trimmed, lowercased argument contains 'admin' and 'Manager' otherwise (the
\* empty string included); applied to its own result it returns that result.
C24_NormalizeRoleTotal ==
  /\ norm.output = "none" => ENABLED NormalizeRole
  /\ norm.output # "none" =>
        /\ norm.output \in {"Admin", "Manager"}
        /\ norm.output = "Admin" <=> ContainsAdmin(norm.input)
        /\ norm.input = <<>> => norm.output = "Manager"
  /\ norm.again # "none" => norm.again = norm.output

\* ' ADMIN' was normalized to 'Admin', and 'Admin' again to 'Admin'
C24_Witness ==
  /\ norm.input = <<" ", "A", "D", "M", "I", "N">>
  /\ norm.output = "Admin"
  /\ norm.again = "Admin"

\* the last record of list with the id of list[k] is list[k] itself
LastWithId(list, k) == \A j \in (k + 1)..Len(list) : list[j].id # list[k].id

\* the records the settled call has written: the arguments of a successful
\* insertCustomer / insertCustomers, of a successful updateCustomer of an id the
\* table held, that no later argument of the same call replaced
Written(c) ==
  IF c.pc # "idle" \/ c.result # "ok" THEN {}
  ELSE IF c.op \in {"insertCustomer", "insertCustomers"}
    THEN {c.args[k] : k \in {j \in 1..Len(c.args) : LastWithId(c.args, j)}}
  ELSE IF c.op = "updateCustomer"
    THEN {r \in {c.args[1]} : r.id \in Ids(c.before)}
  ELSE {}

\* C25: a getAllCustomers that follows a successful insertCustomer, insertCustomers
\* or updateCustomer returns every record written, once, with the id, name and
\* email as written and the role normalizeRole gives for the written role.
C25_RoleRoundTrip ==
  [][(call'.op = "getAllCustomers" /\ call'.result = "ok") =>
       \A r \in Written(call) :
         /\ Cardinality({k \in 1..Len(call'.rows) : call'.rows[k].id = r.id}) = 1
         /\ \E k \in 1..Len(call'.rows) :
              call'.rows[k] = Cust(r.id, r.name, r.email, normalizeRole(r.role))]_vars

\* three records with the roles 'ADMINISTRATOR', 'guest', ' admin ' were written
\* in one insertCustomers and read back as Ann/Admin (r1) and Ann/Manager (r3)
C25_Witness ==
  /\ call.op = "getAllCustomers" /\ call.result = "ok"
  /\ Rows(call.rows) = {Cust("r1", "Ann", "ann@z.co", "Admin"),
                        Cust("r3", "Ann", "ann@z.co", "Manager")}

\* C26: after a successful insertCustomer(r) the table holds exactly one row
\* with r.id, carrying r's name and email and the normalized role; the number
\* of rows grows by one when the id was absent and stays when it was present;
\* the rows with other ids are the ones the table held, in the same order.
C26_InsertIsUpsert ==
  [][(call'.op = "insertCustomer" /\ call'.result = "ok") =>
       LET r == call'.args[1]
       IN  /\ Cardinality({k \in 1..Len(table') : table'[k].id = r.id}) = 1
           /\ \E k \in 1..Len(table') :
                table'[k] = Cust(r.id, r.name, r.email, normalizeRole(r.role))
           /\ Len(table') = (IF r.id \in Ids(table) THEN Len(table) ELSE Len(table) + 1)
           /\ SelectSeq(table', LAMBDA x : x.id # r.id)
                = SelectSeq(table, LAMBDA x : x.id # r.id)]_vars

\* insertCustomer replaced the row r1 (Bob, Admin) by (Ann, Admin) next to the row r2
C26_Witness ==
  /\ call.op = "insertCustomer" /\ call.result = "ok"
  /\ call.args[1] = Cust("r1", "Ann", "ann@z.co", " admin ")
  /\ Rows(call.before) = {Cust("r1", "Bob", "bob@z.co", "Admin"),
                          Cust("r2", "amy", "amy@z.co", "Manager")}
  /\ Rows(table) = {Cust("r1", "Ann", "ann@z.co", "Admin"),
                    Cust("r2", "amy", "amy@z.co", "Manager")}
  /\ Len(table) = 2

\* the table after insertCustomer was applied to the first n records of list
RECURSIVE InsertedInOrder(_, _, _)
InsertedInOrder(tbl, list, n) ==
  IF n = 0 THEN tbl
  ELSE LET r == list[n]
       IN  SqlInsertOrReplace(InsertedInOrder(tbl, list, n - 1),
                              Cust(r.id, r.name, r.email, normalizeRole(r.role)))

\* C27: insertCustomers writes the records in list order, one insertCustomer
\* each.  When the write of record i fails the call ends with that error, the
\* records before i stay written and the records from i on are not written;
\* when no write fails all are written; an empty list changes nothing and
\* returns normally on an open handle.
C27_InsertManySequential ==
  /\ [](call.op = "insertCustomers" =>
          /\ call.pc = "insert" =>
                /\ call.i \in 1..Len(call.args)
                /\ table = InsertedInOrder(call.before, call.args, call.i - 1)
          /\ (call.pc = "idle" /\ call.result = SqlError) =>
                /\ call.i \in 1..Len(call.args)
                /\ table = InsertedInOrder(call.before, call.args, call.i - 1)
          /\ (call.pc = "idle" /\ call.result = "ok") =>
                table = InsertedInOrder(call.before, call.args, Len(call.args))
          /\ (call.pc = "idle" /\ call.args = <<>>) => table = call.before)
  /\ [][(call.pc = "insert" /\ call'.pc = "idle" /\ call'.result = SqlError) =>
          /\ table' = table
          /\ call'.i = call.i]_vars
  /\ [][(call' # call /\ call'.op = "insertCustomers" /\ call'.args = <<>>) =>
          /\ UNCHANGED <<dbVars, faultsLeft>>
          /\ call'.pc = "idle"
          /\ call'.result = (IF database = "open" THEN "ok" ELSE NotInitialized)]_vars

\* the third write of a list of three was rejected: r1 (Bob) and r3 are in the
\* table, the replacement of r1 by Ann is not
C27_Witness ==
  /\ call.op = "insertCustomers" /\ call.pc = "idle" /\ call.result = SqlError
  /\ call.i = 3
  /\ call.before = <<>>
  /\ table = <<Cust("r1", "Bob", "bob@z.co", "Admin"), Cust("r3", "Ann", "ann@z.co", "Manager")>>

\* a seeding write of slot p is rejected in this step
SeedWriteFails(p) ==
  /\ ld[p].pc \in {"insert", "reinsert"}
  /\ ld'[p].pc \notin {"insert", "reinsert", "verify"}

\* C28: in loadCustomers, recreateTableWithoutConstraint is invoked only when a
\* write of the first seeding pass was rejected with the role constraint
\* message; when it succeeds the whole list is written again from its first
\* item, once; it is invoked at most once per loadCustomers; a seeding write
\* rejected with another message, or rejected in the second pass, ends the
\* seeding without recreate and without another pass.
C28_DropOnlyOnRoleConstraint ==
  /\ [](\A p \in LoadProcs :
          /\ ld[p].drops <= 1
          /\ ld[p].seedWrites <= 2
          /\ ld[p].seedWrites = 2 => ld[p].drops = 1
          /\ ld[p].pc \in {"drop", "create", "reinsert"} => ld[p].drops = 1)
  /\ [][\A p \in LoadProcs :
          /\ (ld'[p].drops # ld[p].drops /\ ld[p].pc # "idle") =>
                /\ SeedWriteFails(p)
                /\ ld[p].pc = "insert"
                /\ ld'[p].msg = "CHECK constraint failed: role"
                /\ ld'[p].pc = "drop"
          /\ SeedWriteFails(p) =>
                /\ table' = table
                /\ ld'[p].pc = "drop" <=>
                      (ld[p].pc = "insert" /\ ld'[p].msg = "CHECK constraint failed: role")
                /\ ld'[p].pc # "drop" =>
                      /\ ld'[p].pc = "getAll"
                      /\ ld'[p].seedWrites = ld[p].seedWrites
                      /\ ld'[p].drops = ld[p].drops
          /\ (ld'[p].pc = "reinsert" /\ ld[p].pc # "reinsert") =>
                /\ ld[p].pc = "create"
                /\ ld'[p].i = 1
                /\ ld'[p].items = ld[p].items
                /\ ld'[p].seedWrites = 2
          /\ (ld[p].pc = "create" /\ tableExists' /\ ~tableExists) => ld'[p].pc = "reinsert"
          /\ ld[p].pc = "reinsert" => ld'[p].pc \in {"reinsert", "verify", "getAll"}]_vars

\* a load whose first pass was rejected with the role constraint message, that
\* recreated the table and wrote both items in the second pass
C28_Witness ==
  \E p \in LoadProcs :
    /\ ld[p].msg = "CHECK constraint failed: role"
    /\ ld[p].drops = 1
    /\ ld[p].seedWrites = 2
    /\ ld[p].seed = "ok"
    /\ ~roleCheck
    /\ Ids(table) = {"r1", "r2"}

\* a load whose first pass was rejected with another message: no recreate, no
\* second pass
C28_WitnessOther ==
  \E p \in LoadProcs :
    /\ ld[p].msg = "disk I/O error"
    /\ ld[p].drops = 0
    /\ ld[p].seedWrites = 1
    /\ ld[p].seed = "failed"
    /\ ld[p].result = "ok"

\* C29: when recreateTableWithoutConstraint succeeds the table exists, has no
\* role constraint and holds no row, whatever it held before; afterwards every
\* row is accepted whatever its role, and initDatabase (CREATE TABLE IF NOT
\* EXISTS) neither restores the constraint nor touches the rows.
C29_RecreateDropsConstraintAndRows ==
  /\ [][(call.pc = "create" /\ call'.result = "ok") =>
          /\ tableExists' /\ ~roleCheck'
          /\ table' = <<>>]_vars
  /\ [][(call.pc = "drop" /\ call'.pc = "create") => table' = <<>>]_vars
  /\ []((tableExists /\ ~roleCheck) =>
          \A role \in {"guest", " admin ", "Admin"} : ~CheckFails(Cust("r1", "Ann", "ann@z.co", role)))
  /\ [][(tableExists /\ ~roleCheck /\ app = "create" /\ app' # "create") =>
          /\ ~roleCheck'
          /\ table' = table
          /\ tableExists']_vars

\* the table held a row when recreateTableWithoutConstraint was called and is
\* empty, unconstrained, after it succeeded
C29_Witness ==
  /\ call.op = "recreateTableWithoutConstraint" /\ call.result = "ok"
  /\ Len(call.before) > 0
  /\ tableExists /\ ~roleCheck
  /\ table = <<>>

\* initDatabase ran again after the recreate and a later insert
C29_WitnessReinit ==
  /\ call.op = "initDatabase"
  /\ app = "ready"
  /\ tableExists /\ ~roleCheck
  /\ Len(table) > 0

\* the data operations of the DatabaseService
DataOps ==
  {"insertCustomer", "insertCustomers", "getAllCustomers", "updateCustomer", "deleteCustomer",
   "getCustomerCount", "recreateTableWithoutConstraint"}

\* C30: without a handle (before initDatabase, after closeDatabase) every data
\* operation throws 'Database not initialized' and changes nothing, the probe
\* returns false, and closeDatabase returns normally and changes nothing; the
\* probe never throws; a closeDatabase that succeeds leaves no handle.
C30_Lifecycle ==
  /\ [][(opsLeft' < opsLeft /\ database # "open" /\ call'.op \in DataOps) =>
          /\ call'.pc = "idle"
          /\ call'.result = NotInitialized
          /\ UNCHANGED <<database, tableExists, roleCheck, table, faultsLeft>>]_vars
  /\ [][(opsLeft' < opsLeft /\ database # "open" /\ call'.op = "testDatabaseConnection") =>
          /\ call'.result = "false"
          /\ UNCHANGED <<database, tableExists, roleCheck, table, faultsLeft>>]_vars
  /\ [][(opsLeft' < opsLeft /\ database # "open" /\ call'.op = "closeDatabase") =>
          /\ call'.result = "ok"
          /\ UNCHANGED <<database, tableExists, roleCheck, table, faultsLeft>>]_vars
  /\ [](call.op = "testDatabaseConnection" => call.result \in {"true", "false"})
  /\ [][(opsLeft' < opsLeft /\ call'.op = "closeDatabase" /\ call'.result = "ok") =>
          database' = "null"]_vars
  /\ [][(opsLeft' < opsLeft /\ database = "open" /\ call'.op \in DataOps) =>
          call'.result # NotInitialized]_vars

\* an insert after the adapter was initialized, filled and closed
C30_Witness ==
  /\ call.op = "insertCustomer" /\ call.result = NotInitialized
  /\ database = "null"
  /\ tableExists
  /\ Len(table) > 0
  /\ table = call.before

\* a getAllCustomers before initDatabase
C30_WitnessBefore ==
  /\ call.op = "getAllCustomers" /\ call.result = NotInitialized
  /\ app = "open" /\ ~tableExists

\* a closeDatabase without a handle, after the adapter was initialized
C30_WitnessClose ==
  /\ call.op = "closeDatabase" /\ call.result = "ok"
  /\ database = "null" /\ tableExists
  /\ opsLeft = DbMaxOps - 2

\* a < b when both are lowercased (case-insensitive comparison of names)
NoCaseLess(a, b) == BinaryLess(toLowerCase(Chars(a)), toLowerCase(Chars(b)))

\* out holds every row of tbl exactly once
IsPermutationOf(out, tbl) ==
  /\ Len(out) = Len(tbl)
  /\ \A r \in Rows(tbl) \cup Rows(out) :
       Cardinality({k \in 1..Len(out) : out[k] = r})
         = Cardinality({k \in 1..Len(tbl) : tbl[k] = r})

\* C31: getAllCustomers returns every stored row exactly once, ordered by name
\* ascending under case-insensitive comparison.
C31_GetAllOrderedNoCase ==
  [][(opsLeft' < opsLeft /\ call'.op = "getAllCustomers" /\ call'.result = "ok") =>
       /\ IsPermutationOf(call'.rows, table)
       /\ \A j, k \in 1..Len(call'.rows) :
            j < k => ~NoCaseLess(call'.rows[k].name, call'.rows[j].name)]_vars

\* what holds of getAllCustomers: every row once, in ascending binary order of the names
C31_GetAllOrderedBinary ==
  [][(opsLeft' < opsLeft /\ call'.op = "getAllCustomers" /\ call'.result = "ok") =>
       /\ IsPermutationOf(call'.rows, table)
       /\ \A j, k \in 1..Len(call'.rows) :
            j < k => ~BinaryLess(Chars(call'.rows[k].name), Chars(call'.rows[j].name))]_vars

\* C32: clearError sets error to null and leaves customers, filteredCustomers,
\* searchTerm, selectedRole, loading and refreshing as they are; called when
\* error is already null it changes nothing.
C32_ClearErrorFrame ==
  /\ [][ClearError =>
          /\ error' = null
          /\ UNCHANGED <<customers, filteredCustomers, searchTerm, selectedRole, loading,
                         refreshing>>]_vars
  /\ [][(ClearError /\ error = null) => UNCHANGED vars]_vars

\* the only operation invoked was an addCustomer that failed and set error;
\* error is null again, with a search term set and one record loaded before
C32_Witness ==
  /\ NoOpInFlight
  /\ ad.result = "threw"
  /\ \A p \in LoadProcs : ld[p].result = "none"
  /\ rf.result = "none" /\ up.result = "none" /\ de.result = "none"
  /\ error = null
  /\ searchTerm # ""

\* nothing of the store has been invoked or written
StoreUntouched ==
  /\ NoOpInFlight
  /\ \A p \in LoadProcs : ld[p] = LoadIdle
  /\ rf = RefreshIdle /\ ad = MutationIdle /\ up = MutationIdle /\ de = MutationIdle
  /\ customers = <<>> /\ filteredCustomers = <<>>
  /\ loading = FALSE /\ refreshing = FALSE /\ error = null
  /\ searchTerm = "" /\ selectedRole = "All" /\ timers = 0

\* C33: no store operation is invoked, and no store state written, before
\* initDatabase has resolved (handle open, table created); when initDatabase
\* fails the app stays not ready for good and nothing of the store is ever
\* invoked.
C33_NoOperationBeforeReady ==
  /\ [](app # "ready" => StoreUntouched)
  /\ [](app = "ready" => database = "open")
  /\ [][(app # "ready" /\ app' = "ready") => (database' = "open" /\ tableExists')]_vars
  /\ [][(\/ \E p \in LoadProcs : ld[p].pc = "idle" /\ ld'[p].pc # "idle"
         \/ rf.pc = "idle" /\ rf'.pc # "idle"
         \/ ad.pc = "idle" /\ ad'.pc # "idle"
         \/ up.pc = "idle" /\ up'.pc # "idle"
         \/ de.pc = "idle" /\ de'.pc # "idle"
         \/ storeVars' # storeVars) => app = "ready"]_vars
  /\ [][app = "failed" => app' = "failed"]_vars

\* loadCustomers has just been invoked, on an initialized adapter
C33_Witness ==
  /\ app = "ready"
  /\ \E p \in LoadProcs : ld[p].pc = "probe"
  /\ loading = TRUE
  /\ database = "open" /\ tableExists

\* createTables was rejected: handle open, no table, the app not ready
C33_WitnessFailed ==
  /\ app = "failed"
  /\ database = "open" /\ ~tableExists
  /\ StoreUntouched

\* the fields of the errors, in the order returned
ErrorFields(errors) == [k \in 1..Len(errors) |-> errors[k].field]

\* C34: validateForm returns at most one error per field, in the order name,
\* email, role; it holds an error for a field exactly when that field's
\* validator rejects the field, and that error is the validator's; it is empty
\* exactly when the three validators accept.
C34_ValidateFormCollects ==
  /\ ~form.done => ENABLED ValidateForm
  /\ form.done =>
        LET errors == form.errors
            rejected(f) == CASE f = "name" -> validateName(form.data.name)
                             [] f = "email" -> validateEmail(form.data.email)
                             [] f = "role" -> validateRole(form.data.role)
        IN  /\ ErrorFields(errors) =
                 SelectSeq(<<"name", "email", "role">>, LAMBDA f : rejected(f) # NoValidationError)
            /\ \A k \in 1..Len(errors) : errors[k] = rejected(errors[k].field)
            /\ \A f \in {"name", "email", "role"} :
                 (\E k \in 1..Len(errors) : errors[k].field = f) <=> rejected(f) # NoValidationError
            /\ errors = <<>> <=>
                 (/\ validateName(form.data.name) = NoValidationError
                  /\ validateEmail(form.data.email) = NoValidationError
                  /\ validateRole(form.data.role) = NoValidationError)

\* the form of the test: name '', email 'invalid-email', role 'Admin' gives the
\* errors for name and email, in that order
C34_Witness ==
  /\ form.done
  /\ form.data.name = <<>>
  /\ form.data.email = <<"i", "n", "v", "a", "l", "i", "d", "-", "e", "m", "a", "i", "l">>
  /\ form.data.role = Chars("Admin")
  /\ ErrorFields(form.errors) = <<"name", "email">>

\* 'John Doe', 'a@b.c', 'Manager' is accepted
C34_WitnessValid ==
  /\ form.done
  /\ form.data.name = <<"J", "o", "h", "n", " ", "D", "o", "e">>
  /\ form.data.email = <<"a", "@", "b", ".", "c">>
  /\ form.data.role = Chars("Manager")
  /\ form.errors = <<>>

\* C35: when operations do not overlap, a loadCustomers or refreshCustomers has
\* completed successfully and no operation is in flight, customers and the
\* table hold the same records.
C35_MemoryMatchesTable ==
  (/\ NoOpInFlight
   /\ (rf.result = "ok" \/ \E p \in LoadProcs : ld[p].result = "ok"))
    => Rows(customers) = Rows(table)

\* C36: when nothing is in flight any more, the id of a deleteCustomer that
\* completed successfully and is not in the table is not in customers either,
\* also when a loadCustomers or refreshCustomers overlapped the delete (no
\* addCustomer or updateCustomer having been invoked).
C36_DeletedStaysDeleted ==
  (/\ NoOpInFlight
   /\ ad = MutationIdle /\ up = MutationIdle
   /\ de.result = "ok"
   /\ de.arg \notin Ids(table))
    => de.arg \notin Ids(customers)

\* the number of entries of cs with the id
CountId(cs, id) == Cardinality({k \in 1..Len(cs) : cs[k].id = id})

\* C37: addCustomer, updateCustomer (of r1) and deleteCustomer (of r2) were each
\* invoked once on the loaded list, overlapped in some way, and all succeeded:
\* customers then holds the added record once, r1 as updated, and no r2, and
\* nothing else; the same for any two of them, the third not invoked.
C37_OverlappingMutationsAllApplied ==
  LET invoked == {m \in {"ad", "up", "de"} :
                    CASE m = "ad" -> ad # MutationIdle
                      [] m = "up" -> up # MutationIdle
                      [] m = "de" -> de # MutationIdle}
  IN  (/\ NoOpInFlight
       /\ opsLeft = MutMaxOps - Cardinality(invoked)
       /\ "ad" \in invoked => ad.result = "ok"
       /\ "up" \in invoked => up.result = "ok"
       /\ "de" \in invoked => de.result = "ok")
      =>
      (/\ "ad" \in invoked =>
            /\ CountId(customers, ad.arg.id) = 1
            /\ normalizeCustomer(ad.arg) \in Rows(customers)
       /\ "up" \in invoked => normalizeCustomer(up.arg) \in Rows(customers)
       /\ "de" \in invoked => de.arg \notin Ids(customers)
       /\ CountId(customers, "r1") = 1
       /\ "up" \notin invoked => LoadedCustomers[1] \in Rows(customers)
       /\ "de" \notin invoked => LoadedCustomers[2] \in Rows(customers)
       /\ Len(customers) = 2 + (IF "ad" \in invoked THEN 1 ELSE 0)
                              - (IF "de" \in invoked THEN 1 ELSE 0)
       /\ Rows(customers) = Rows(table))

\* all three were invoked and succeeded: r1 is updated, r2 is gone, n1 is there
C37_Witness ==
  /\ NoOpInFlight
  /\ opsLeft = MutMaxOps - 3
  /\ ad.result = "ok" /\ up.result = "ok" /\ de.result = "ok"
  /\ customers = <<Cust("r1", "Ann", "ann@z.co", "Manager"), Cust("n1", "Ann", "ann@z.co", "Admin")>>
  /\ table = <<Cust("r1", "Ann", "ann@z.co", "Manager"), Cust("n1", "Ann", "ann@z.co", "Admin")>>

\* the three writes have completed and none of the three has committed yet
C37_WitnessOverlap ==
  /\ ad.pc = "commit" /\ up.pc = "commit" /\ de.pc = "commit"
  /\ customers = LoadedCustomers

\* C38: the self-test's record is never in customers or filteredCustomers, and
\* it is not in the table when no loadCustomers is in flight.
C38_SelfTestRecordInvisible ==
  /\ Ids(customers) \cap TestIds = {}
  /\ Ids(filteredCustomers) \cap TestIds = {}
  /\ (\A p \in LoadProcs : ld[p].pc = "idle") => Ids(table) \cap TestIds = {}

\* the part about customers alone
C38_SelfTestRecordNotPublished == Ids(customers) \cap TestIds = {}

\* the part about the count a seeding decision sees: it is the number of rows
\* that are not a self-test's
C38_SelfTestRecordNotCounted ==
  [][\A p \in LoadProcs :
       (ld[p].pc = "count" /\ ld'[p].pc \in {"fetch", "getAll"}) =>
         ld'[p].count = Len(SelectSeq(table, LAMBDA r : r.id \notin TestIds))]_vars

\* C39: after an initDatabase that failed (at the open or at the CREATE TABLE)
\* the adapter holds no handle, every data operation throws 'Database not
\* initialized' and the probe returns false.
C39_FailedInitLeavesUninitialized ==
  /\ [](app = "failed" => database # "open")
  /\ [][(opsLeft' < opsLeft /\ app = "failed" /\ call'.op \in DataOps) =>
          call'.result = NotInitialized]_vars
  /\ [][(opsLeft' < opsLeft /\ app = "failed" /\ call'.op = "testDatabaseConnection") =>
          call'.result = "false"]_vars

\* the part about the probe alone
C39_ProbeFalseAfterFailedInit ==
  [][(opsLeft' < opsLeft /\ app = "failed" /\ call'.op = "testDatabaseConnection") =>
       call'.result = "false"]_vars

\* the part about the data operations alone
C39_DataOpsAfterFailedInit ==
  [][(opsLeft' < opsLeft /\ app = "failed" /\ call'.op \in DataOps) =>
       call'.result = NotInitialized]_vars

\* C40: on every string the store's normalizeRole and the adapter's return the
\* same value, 'Admin' exactly when the trimmed, lowercased string contains
\* 'admin' and 'Manager' otherwise; a role the store normalized is not changed
\* by the adapter on write, and a role the adapter normalized is not changed
\* by the store on read.
C40_NormalizersAgree ==
  /\ norm.db = "none" => ENABLED DbNormalizeRole
  /\ norm.db # "none" =>
        /\ norm.db \in {"Admin", "Manager"}
        /\ norm.db = "Admin" <=> ContainsAdmin(norm.input)
  /\ (norm.output # "none" /\ norm.db # "none") => norm.output = norm.db
  /\ norm.written # "none" => norm.written = norm.output
  /\ norm.read # "none" => norm.read = norm.db

\* 'managerADMIN' went through both normalizers and through both second passes
C40_Witness ==
  /\ norm.input = <<"m", "a", "n", "a", "g", "e", "r", "A", "D", "M", "I", "N">>
  /\ norm.output = "Admin" /\ norm.db = "Admin"
  /\ norm.written = "Admin" /\ norm.read = "Admin"

\* ' manager ' went through both normalizers and through both second passes
C40_WitnessManager ==
  /\ norm.input = <<" ", "m", "a", "n", "a", "g", "e", "r", " ">>
  /\ norm.output = "Manager" /\ norm.db = "Manager"
  /\ norm.written = "Manager" /\ norm.read = "Manager"

====
